---- MODULE Spec2Model ----
(***************************************************************************)
(* Lifecycle state machine of the assistive device: StateManager           *)
(* (src/src/core/state_manager.py) driven by the orchestrator's threads    *)
(* (src/main.py): the main thread (start + run_forever watchdog), the      *)
(* perception thread (inference_loop) and the thermal thread               *)
(* (thermal_monitor_loop).  The threads client1 and client2 stand for any  *)
(* other caller of the StateManager's public methods.                      *)
(*                                                                         *)
(* Spec is the orchestrator with its three threads; SpecSM is the          *)
(* StateManager used by arbitrary callers; SpecThermal is the thermal      *)
(* supervisor beside one arbitrary caller, so that it meets every state.   *)
(* SpecAnalyze and SpecNav are the alert engine (NavigationSystem in       *)
(* src/src/core/navigation_system.py): its analysis on every batch, and    *)
(* its alerts over time.  SpecTracking is one session of RunTracking       *)
(* (src/src/core/run_tracking_state.py) with its inference thread, its     *)
(* audio thread and the announcement queue between them.                   *)
(*                                                                         *)
(* Temperatures are tenths of a degree Celsius (79.9 C is 799).            *)
(* A Python signal is taken to arrive while the main thread sleeps in      *)
(* run_forever (where it spends its time), not inside a transition.        *)
(***************************************************************************)
EXTENDS Integers, Sequences, FiniteSets, TLC

VARIABLES
    current_state,        \* StateManager.current_state
    previous_state,       \* StateManager.previous_state ("None" before the first change)
    transition_history,   \* StateManager.transition_history
    lock,                 \* StateManager._lock: the thread holding it, or NoThread
    entry_callbacks,      \* states with a registered entry callback
    exit_callbacks,       \* states with a registered exit callback
    callback_runs,        \* how many exit / entry callbacks have been invoked
    now,                  \* time.time() as a logical clock: it advances between two log entries
    stop_event,           \* AssistiveDevice.stop_event
    current_temp,         \* AssistiveDevice.current_temp (tenths of a degree)
    pc,                   \* each thread's position
    frame,                \* each thread's transition_to call: arguments and locals
    observed,             \* each thread's last value read from the StateManager
    io_controller,        \* AssistiveDevice.io_controller: "None" or the controller object
    io_commands,          \* the commands the latest entry action sent to the IO controller
    fan_speed,            \* the argument of the latest set_fan_speed command, -1 before the first
    voice,                \* NavigationSystem.voice
    clock,                \* time.time() seen by the alert engine (tenths of a second)
    last_alert_time,      \* NavigationSystem._last_alert_time (tenths of a second)
    voice_requests,       \* the voice.speak calls of the alert engine: time and message
    detections,           \* the batch last given to process_frame_navigation
    threat_info,          \* what analyze_detections returned for that batch
    running,              \* RunTracking.running
    logged_ids,           \* RunTracking.logged_ids
    active_ids,           \* RunTracking.active_ids
    speak_labels_queue,   \* RunTracking.speak_labels_queue
    enqueued,             \* every ID and label put on the queue so far, in order
    seen_ids,             \* the IDs accepted in some earlier frame of the session
    spoken,               \* the labels handed to driver_audio.speak, in order
    tpc,                  \* position of RunTracking's main, inference and audio threads
    current_frame_ids,    \* _run_inference_loop: IDs of the frame's accepted tracks
    new_ids,              \* _run_inference_loop: the new IDs the for loop has still to visit
    speak_label,          \* _announce_object_loop: the item taken from the queue
    stop_mark,            \* when RunTracking.stop began: how many labels had been spoken,
                          \* and which one the consumer had accepted and not yet spoken
    join_timeouts,        \* the worker threads whose join in a stop path timed out
    diagnostics,          \* the worker threads a stop path has reported as still alive
    baseline_floor,       \* TofDriver.baseline_floor (millimetres)
    tof_args,             \* the arguments TofDriver was constructed with
    tof_call,             \* the latest detect_hole / detect_air_obstacle call and its result
    fusion,               \* SensorFusion: the two timestamps and the fused_data dictionary
    fusion_call,          \* the latest call of a SensorFusion method: arguments, time, result
    label_call,           \* the latest label resolution: the track, the detections, the label
    ctx_state,            \* Context._state: the class of the current state object
    ctx_pc,               \* position of the thread that calls Context.run and of the monitor
    ctx_local,            \* each of the two threads' locals: the state object it runs, its reading
    alert_sent            \* OverheatState.alert_sent of the current OverheatState object

devVars == <<io_controller, io_commands, fan_speed>>

navVars == <<voice, clock, last_alert_time, voice_requests, detections, threat_info>>

trkVars == <<running, logged_ids, active_ids, speak_labels_queue, enqueued, seen_ids,
             spoken, tpc, current_frame_ids, new_ids, speak_label>>

stopVars == <<stop_mark, join_timeouts, diagnostics>>

tofVars == <<baseline_floor, tof_args, tof_call>>

fusVars == <<fusion, fusion_call>>

lblVars == <<label_call>>

ctxVars == <<ctx_state, ctx_pc, ctx_local, alert_sent>>

extVars == <<fusVars, lblVars, ctxVars>>

restVars == <<navVars, trkVars, stopVars, tofVars, extVars>>

lifeVars == <<current_state, previous_state, transition_history, lock, entry_callbacks,
              exit_callbacks, callback_runs, now, stop_event, current_temp, pc, frame,
              observed>>

baseVars == <<lifeVars, devVars, navVars, trkVars, stopVars, tofVars>>

vars == <<baseVars, extVars>>

smVars == <<current_state, previous_state, transition_history, callback_runs>>

----------------------------------------------------------------------------
\* Bounds of the model

MaxLog == 5

----------------------------------------------------------------------------
\* SystemState and the threads

BOOTING == "Booting"
RUNNING == "Running"
THROTTLING == "Throttling"
ERROR == "Error"
SHUTDOWN == "Shutdown"

SystemState == {BOOTING, RUNNING, THROTTLING, ERROR, SHUTDOWN}

NoState == "None"
NoThread == "nobody"
NoTemp == 0 - 1

Threads == {"main", "perception", "thermal", "client1", "client2"}

\* The threads that stand for arbitrary callers of the StateManager
Clients == {"client1", "client2"}

\* pinout.py thresholds, in degrees Celsius
TEMP_NORMAL == 60
TEMP_THROTTLE == 80
TEMP_CRITICAL == 95

\* Readings the sensor may deliver (tenths of a degree): both sides of each threshold
Readings == {599, 600, 799, 800, 949, 950}

\* The reason argument of transition_to: the text and the reading it quotes
Reason(text, temp) == [text |-> text, temp |-> temp]

NoFrame == [target |-> NoState, reason |-> Reason("", NoTemp), old_state |-> NoState,
            cont |-> "", ret |-> "None", called |-> {}, raised |-> {}]

----------------------------------------------------------------------------
\* StateManager

\* Variants of the table with one row changed: Error may go straight to Running,
\* Running may not shut down, Shutdown may restart
valid_transitions_ErrorToRunning(from_state) ==
    CASE from_state = BOOTING -> {RUNNING, ERROR}
      [] from_state = RUNNING -> {THROTTLING, ERROR, SHUTDOWN}
      [] from_state = THROTTLING -> {RUNNING, ERROR}
      [] from_state = ERROR -> {BOOTING, RUNNING}
      [] OTHER -> {}

valid_transitions_NoShutdown(from_state) ==
    CASE from_state = BOOTING -> {RUNNING, ERROR}
      [] from_state = RUNNING -> {THROTTLING, ERROR}
      [] from_state = THROTTLING -> {RUNNING, ERROR}
      [] from_state = ERROR -> {BOOTING}
      [] OTHER -> {}

valid_transitions_Restart(from_state) ==
    CASE from_state = BOOTING -> {RUNNING, ERROR}
      [] from_state = RUNNING -> {THROTTLING, ERROR, SHUTDOWN}
      [] from_state = THROTTLING -> {RUNNING, ERROR}
      [] from_state = ERROR -> {BOOTING}
      [] from_state = SHUTDOWN -> {BOOTING}
      [] OTHER -> {}

\* _is_valid_transition: the valid_transitions table
valid_transitions(from_state) ==
    CASE from_state = BOOTING -> {RUNNING, ERROR}
      [] from_state = RUNNING -> {THROTTLING, ERROR, SHUTDOWN}
      [] from_state = THROTTLING -> {RUNNING, ERROR}
      [] from_state = ERROR -> {BOOTING}
      [] from_state = SHUTDOWN -> {}
      [] OTHER -> {}

is_valid_transition(from_state, to_state) == to_state \in valid_transitions(from_state)

\* A lock that never makes a caller wait
LockFreeAlways == TRUE

\* self._lock can be taken: no thread holds it
LockFree == lock = NoThread

\* with self._lock: entering the block
Acquire(t) ==
    /\ LockFree
    /\ lock' = t

\* A with block that keeps the lock when it is left
Release_Keeps(t) == lock' = lock

\* leaving the with block
Release(t) == lock' = NoThread

\* The state changed before the exit callback runs
TransitionStepsSwapFirst ==
    <<"tt_swap", "tt_exit", "tt_append", "tt_entry", "tt_return">>

\* The steps of an accepted transition, in program order (state_manager.py 89-115)
TransitionSteps == <<"tt_exit", "tt_swap", "tt_append", "tt_entry", "tt_return">>

StepAfter(p) ==
    LET i == CHOOSE k \in 1..Len(TransitionSteps) : TransitionSteps[k] = p
    IN  TransitionSteps[i + 1]

\* A caller invokes transition_to(new_state, reason) and continues at k
TransitionCall(t, new_state, reason, k) ==
    /\ pc' = [pc EXCEPT ![t] = "tt_acquire"]
    /\ frame' = [frame EXCEPT ![t] = [NoFrame EXCEPT !.target = new_state,
                                                      !.reason = reason,
                                                      !.cont = k]]

\* transition_to, line 71: take the lock
tt_acquire(t) ==
    /\ pc[t] = "tt_acquire"
    /\ Len(transition_history) < MaxLog
    /\ Acquire(t)
    /\ pc' = [pc EXCEPT ![t] = "tt_check"]
    /\ UNCHANGED <<devVars, restVars, smVars, entry_callbacks, exit_callbacks, now, stop_event,
                   current_temp, frame, observed>>

\* The shortcut for the current state left out
AlreadyInNever(t) == FALSE

\* transition_to, line 72: new_state == self.current_state
AlreadyIn(t) == frame[t].target = current_state

\* transition_to, lines 72-83: already there, or not a valid transition
tt_check(t) ==
    /\ pc[t] = "tt_check"
    /\ IF AlreadyIn(t)
       THEN /\ frame' = [frame EXCEPT ![t].ret = "True"]
            /\ pc' = [pc EXCEPT ![t] = "tt_return"]
       ELSE IF ~is_valid_transition(current_state, frame[t].target)
       THEN /\ frame' = [frame EXCEPT ![t].ret = "False"]
            /\ pc' = [pc EXCEPT ![t] = "tt_return"]
       ELSE /\ frame' = [frame EXCEPT ![t].old_state = current_state]
            /\ pc' = [pc EXCEPT ![t] = TransitionSteps[1]]
    /\ UNCHANGED <<devVars, restVars, smVars, lock, entry_callbacks, exit_callbacks, now, stop_event,
                   current_temp, observed>>

\* A callback whose exception is not caught: the call ends with it
RunCallbackUncaught(t, kind) ==
    /\ callback_runs' = [callback_runs EXCEPT ![kind] = @ + 1]
    /\ \E raises \in BOOLEAN :
         frame' = [frame EXCEPT ![t].called = @ \cup {kind},
                                ![t].raised = IF raises THEN @ \cup {kind} ELSE @,
                                ![t].ret = IF raises THEN "Raised" ELSE @]

\* A registered callback is invoked; it returns or raises, and a raise is caught
RunCallback(t, kind) ==
    /\ callback_runs' = [callback_runs EXCEPT ![kind] = @ + 1]
    /\ \E raises \in BOOLEAN :
         frame' = [frame EXCEPT ![t].called = @ \cup {kind},
                                ![t].raised = IF raises THEN @ \cup {kind} ELSE @]

\* transition_to, lines 89-94: exit callback of the old state
tt_exit(t) ==
    /\ pc[t] = "tt_exit"
    /\ IF frame[t].old_state \in exit_callbacks
       THEN RunCallback(t, "exit")
       ELSE UNCHANGED <<callback_runs, frame>>
    /\ pc' = [pc EXCEPT ![t] = StepAfter("tt_exit")]
    /\ UNCHANGED <<devVars, restVars, current_state, previous_state, transition_history, lock,
                   entry_callbacks, exit_callbacks, now, stop_event, current_temp,
                   observed>>

\* transition_to, lines 96-98: change the state
tt_swap(t) ==
    /\ pc[t] = "tt_swap"
    /\ previous_state' = frame[t].old_state
    /\ current_state' = frame[t].target
    /\ pc' = [pc EXCEPT ![t] = StepAfter("tt_swap")]
    /\ UNCHANGED <<devVars, restVars, transition_history, callback_runs, lock, entry_callbacks,
                   exit_callbacks, now, stop_event, current_temp, frame, observed>>

\* The entry is built from the attributes after they were changed
tt_append_FromCurrent(t) ==
    /\ pc[t] = "tt_append"
    /\ transition_history' = Append(transition_history,
           [from |-> current_state, to |-> frame[t].target,
            reason |-> frame[t].reason, timestamp |-> now])
    /\ now' = now + 1
    /\ pc' = [pc EXCEPT ![t] = StepAfter("tt_append")]
    /\ UNCHANGED <<devVars, restVars, current_state, previous_state, callback_runs, lock, entry_callbacks,
                   exit_callbacks, stop_event, current_temp, frame, observed>>

\* transition_to, lines 100-106: record the transition
tt_append(t) ==
    /\ pc[t] = "tt_append"
    /\ transition_history' = Append(transition_history,
           [from |-> frame[t].old_state, to |-> frame[t].target,
            reason |-> frame[t].reason, timestamp |-> now])
    /\ now' = now + 1
    /\ pc' = [pc EXCEPT ![t] = StepAfter("tt_append")]
    /\ UNCHANGED <<devVars, restVars, current_state, previous_state, callback_runs, lock, entry_callbacks,
                   exit_callbacks, stop_event, current_temp, frame, observed>>

NoController == "None"

\* An Error entry action that lights the indicator and leaves the buzzer silent
on_enter_NoBuzzer(state, audio_file) ==
    CASE state = BOOTING    -> <<"set_led_status:warn">>
      [] state = RUNNING    -> <<"set_led_status:ok">>
      [] state = THROTTLING -> <<"set_led_status:warn", "set_fan_speed:100">>
      [] state = ERROR      -> <<"set_led_status:error">>
      [] OTHER              -> << >>

\* main.py 112-142: the commands the entry action of a state sends to the IO
\* controller when there is one.  _on_enter_running reads pinout.FAN_SPEED_AUTO,
\* a name pinout.py does not define, so its set_fan_speed call is never made.
\* audio_file: the alert sound exists on disk (line 140)
on_enter(state, audio_file) ==
    CASE state = BOOTING    -> <<"set_led_status:warn">>
      [] state = RUNNING    -> <<"set_led_status:ok">>
      [] state = THROTTLING -> <<"set_led_status:warn", "set_fan_speed:100">>
      [] state = ERROR      -> <<"set_led_status:error", "trigger_buzzer:500">>
                               \o (IF audio_file THEN <<"play_audio">> ELSE << >>)
      [] OTHER              -> << >>

\* IOAudioController.set_fan_speed as the entry actions call it: the speed the
\* fan is left at after the commands, prev when none of them sets it
fan_after(commands, prev) ==
    IF \E i \in 1..Len(commands) : commands[i] = "set_fan_speed:100" THEN 100
    ELSE IF \E i \in 1..Len(commands) : commands[i] = "set_fan_speed:50" THEN 50
    ELSE prev

\* transition_to, lines 108-113: entry callback of the new state
tt_entry(t) ==
    /\ pc[t] = "tt_entry"
    /\ IF frame[t].target \in entry_callbacks
       THEN /\ RunCallback(t, "entry")
            /\ IF io_controller # NoController
               THEN \E audio_file \in BOOLEAN :
                      io_commands' = on_enter(frame[t].target, audio_file)
               ELSE io_commands' = << >>
            /\ fan_speed' = fan_after(io_commands', fan_speed)
       ELSE UNCHANGED <<callback_runs, frame, io_commands, fan_speed>>
    /\ pc' = [pc EXCEPT ![t] = StepAfter("tt_entry")]
    /\ UNCHANGED <<io_controller, restVars, current_state, previous_state,
                   transition_history, lock, entry_callbacks, exit_callbacks, now,
                   stop_event, current_temp, observed>>

\* The value transition_to is about to return (lines 74, 83, 115)
ReturnValue(t) == IF frame[t].ret = "None" THEN "True" ELSE frame[t].ret

\* transition_to returns: the lock is released and the caller continues
tt_return(t) ==
    /\ pc[t] = "tt_return"
    /\ Release(t)
    /\ pc' = [pc EXCEPT ![t] = frame[t].cont]
    /\ frame' = [frame EXCEPT ![t] = NoFrame]
    /\ UNCHANGED <<devVars, restVars, smVars, entry_callbacks, exit_callbacks, now, stop_event,
                   current_temp, observed>>

\* get_state: with self._lock: return self.current_state
get_state(t) ==
    /\ LockFree
    /\ observed' = [observed EXCEPT ![t] = [current |-> current_state,
                                            previous |-> NoState, count |-> -1]]

\* get_state_info: current, previous and the log's length, read under the lock
get_state_info(t) ==
    /\ LockFree
    /\ observed' = [observed EXCEPT ![t] = [current |-> current_state,
                                            previous |-> previous_state,
                                            count |-> Len(transition_history)]]

\* is_in_state: compares current_state without taking the lock
is_in_state(state) == current_state = state

NoObservation == [current |-> NoState, previous |-> NoState, count |-> -1]

----------------------------------------------------------------------------
\* AssistiveDevice: the main thread (start, run_forever, stop)

Jump(t, p) == pc' = [pc EXCEPT ![t] = p]

\* initialize_hardware, line 156: the IO controller object is created and kept
\* before any step of the initialization can fail
initialize_hardware == io_controller' = "IOAudioController"

\* start, lines 344-345: the initial transition_to(BOOTING, "Power ON")
m_start ==
    /\ pc["main"] = "m_start"
    /\ TransitionCall("main", BOOTING, Reason("Power ON", NoTemp), "m_init")
    /\ UNCHANGED <<devVars, restVars, smVars, lock, entry_callbacks, exit_callbacks, now, stop_event,
                   current_temp, observed>>

\* start, lines 347-362: initialize_hardware succeeds or fails
m_init ==
    /\ pc["main"] = "m_init"
    /\ initialize_hardware
    /\ \E ok \in BOOLEAN :
         IF ok
         THEN TransitionCall("main", RUNNING, Reason("Init_Success", NoTemp), "m_spawn")
         ELSE TransitionCall("main", ERROR, Reason("Init_Fail", NoTemp), "m_exit")
    /\ UNCHANGED <<io_commands, fan_speed, restVars, smVars, lock, entry_callbacks, exit_callbacks, now, stop_event,
                   current_temp, observed>>

\* start, lines 364-377: the perception and thermal threads are started
m_spawn ==
    /\ pc["main"] = "m_spawn"
    /\ pc' = [pc EXCEPT !["main"] = "m_loop", !["perception"] = "pl_loop",
                        !["thermal"] = "th_import"]
    /\ UNCHANGED <<devVars, restVars, smVars, lock, entry_callbacks, exit_callbacks, now, stop_event,
                   current_temp, frame, observed>>

\* run_forever, lines 411-412: one pass of the loop, sleeping a second
m_loop ==
    /\ pc["main"] = "m_loop"
    /\ Jump("main", IF stop_event THEN "m_stop" ELSE "m_check")
    /\ UNCHANGED <<devVars, restVars, smVars, lock, entry_callbacks, exit_callbacks, now, stop_event,
                   current_temp, frame, observed>>

\* run_forever, line 415: is the system in Error (read without the lock)
m_check ==
    /\ pc["main"] = "m_check"
    /\ Jump("main", IF is_in_state(ERROR) THEN "m_wd_sleep" ELSE "m_loop")
    /\ UNCHANGED <<devVars, restVars, smVars, lock, entry_callbacks, exit_callbacks, now, stop_event,
                   current_temp, frame, observed>>

\* run_forever, lines 416-424: after the recovery delay, the watchdog's reset
m_wd_sleep ==
    /\ pc["main"] = "m_wd_sleep"
    /\ TransitionCall("main", BOOTING, Reason("Watchdog Auto-Reset", NoTemp), "m_reinit")
    /\ UNCHANGED <<devVars, restVars, smVars, lock, entry_callbacks, exit_callbacks, now, stop_event,
                   current_temp, observed>>

\* run_forever, lines 426-433: re-initialization succeeds or fails
m_reinit ==
    /\ pc["main"] = "m_reinit"
    /\ initialize_hardware
    /\ \E ok \in BOOLEAN :
         IF ok
         THEN TransitionCall("main", RUNNING, Reason("Recovery Success", NoTemp), "m_loop")
         ELSE Jump("main", "m_loop") /\ UNCHANGED frame
    /\ UNCHANGED <<io_commands, fan_speed, restVars, smVars, lock, entry_callbacks, exit_callbacks, now, stop_event,
                   current_temp, observed>>

\* signal_handler / KeyboardInterrupt while run_forever sleeps: the finally block runs
m_signal ==
    /\ pc["main"] \in {"m_loop", "m_wd_sleep"}
    /\ Jump("main", "m_stop")
    /\ UNCHANGED <<devVars, restVars, smVars, lock, entry_callbacks, exit_callbacks, now, stop_event,
                   current_temp, frame, observed>>

\* stop, line 384: the stop flag is set
m_stop ==
    /\ pc["main"] = "m_stop"
    /\ stop_event' = TRUE
    /\ Jump("main", "m_join_inference")
    /\ UNCHANGED <<devVars, restVars, smVars, lock, entry_callbacks, exit_callbacks, now, current_temp,
                   frame, observed>>

\* The positions at which a thread of the orchestrator has ended
Ended == {"off", "pl_done", "th_done", "th_disabled"}

\* Thread.join(timeout=2.0) as stop calls it: it returns when the worker has
\* ended, or after the timeout with the worker still alive; stop does not ask
\* which of the two happened and logs nothing about it
join_with_timeout(t) ==
    \/ /\ pc[t] \in Ended
       /\ UNCHANGED join_timeouts
    \/ /\ pc[t] \notin Ended
       /\ join_timeouts' = join_timeouts \cup {t}

\* stop, lines 387-388: self.inference_thread.join(timeout=2.0)
m_join_inference ==
    /\ pc["main"] = "m_join_inference"
    /\ join_with_timeout("perception")
    /\ Jump("main", "m_join_thermal")
    /\ UNCHANGED <<devVars, navVars, trkVars, tofVars, extVars, stop_mark, diagnostics, smVars, lock,
                   entry_callbacks, exit_callbacks, now, stop_event, current_temp,
                   frame, observed>>

\* stop, lines 389-390: self.thermal_thread.join(timeout=2.0); the hardware
\* cleanup of lines 392-402 follows
m_join_thermal ==
    /\ pc["main"] = "m_join_thermal"
    /\ join_with_timeout("thermal")
    /\ Jump("main", "m_done")
    /\ UNCHANGED <<devVars, navVars, trkVars, tofVars, extVars, stop_mark, diagnostics, smVars, lock,
                   entry_callbacks, exit_callbacks, now, stop_event, current_temp,
                   frame, observed>>

----------------------------------------------------------------------------
\* AssistiveDevice.inference_loop: the perception thread

\* line 224: while not self.stop_event.is_set()
pl_loop ==
    /\ pc["perception"] = "pl_loop"
    /\ Jump("perception", IF stop_event THEN "pl_done" ELSE "pl_getstate")
    /\ UNCHANGED <<devVars, restVars, smVars, lock, entry_callbacks, exit_callbacks, now, stop_event,
                   current_temp, frame, observed>>

\* line 227: current_state = self.state_manager.get_state()
pl_getstate ==
    /\ pc["perception"] = "pl_getstate"
    /\ get_state("perception")
    /\ Jump("perception", "pl_frame")
    /\ UNCHANGED <<devVars, restVars, smVars, lock, entry_callbacks, exit_callbacks, now, stop_event,
                   current_temp, frame>>

\* lines 229-249 and 255-262: in Running or Throttling a frame is captured and
\* inferred, else the loop waits; the capture may return no frame; a step that
\* raises forces Error and ends the loop
pl_frame ==
    /\ pc["perception"] = "pl_frame"
    /\ observed' = [observed EXCEPT !["perception"] = NoObservation]
    /\ IF observed["perception"].current \in {RUNNING, THROTTLING}
       THEN \E outcome \in {"raises", "lost", "frame"} :
              IF outcome = "raises"
              THEN TransitionCall("perception", ERROR,
                                  Reason("Exception en inference", NoTemp), "pl_done")
              ELSE /\ Jump("perception", IF outcome = "frame" THEN "pl_navigate"
                                                              ELSE "pl_loop")
                   /\ UNCHANGED frame
       ELSE Jump("perception", "pl_loop") /\ UNCHANGED frame
    /\ UNCHANGED <<devVars, restVars, smVars, lock, entry_callbacks, exit_callbacks, now, stop_event,
                   current_temp>>

\* _process_frame, lines 264-268: the fusion snapshot is updated and the frame
\* is analysed; the analysis finds a threat to announce, finds none (or is in
\* its cooldown), or raises
pl_navigate ==
    /\ pc["perception"] = "pl_navigate"
    /\ \E outcome \in {"alert", "quiet", "raises"} :
         IF outcome = "raises"
         THEN TransitionCall("perception", ERROR,
                             Reason("Exception en inference", NoTemp), "pl_done")
         ELSE /\ Jump("perception", IF outcome = "alert" THEN "pl_speak" ELSE "pl_loop")
              /\ UNCHANGED frame
    /\ UNCHANGED <<devVars, restVars, smVars, lock, entry_callbacks, exit_callbacks, now,
                   stop_event, current_temp, observed>>

\* navigation_system.py 115-116 as _process_frame reaches it: trigger_alert
\* hands the message to the speech sink; nothing on this path reads the system
\* state
pl_speak ==
    /\ pc["perception"] = "pl_speak"
    /\ Jump("perception", "pl_loop")
    /\ UNCHANGED <<devVars, restVars, smVars, lock, entry_callbacks, exit_callbacks, now,
                   stop_event, current_temp, frame, observed>>

----------------------------------------------------------------------------
\* AssistiveDevice.thermal_monitor_loop: the thermal thread

\* lines 283-287: without psutil the monitor returns at once
th_import ==
    /\ pc["thermal"] = "th_import"
    /\ \E available \in BOOLEAN :
         Jump("thermal", IF available THEN "th_loop" ELSE "th_disabled")
    /\ UNCHANGED <<devVars, restVars, smVars, lock, entry_callbacks, exit_callbacks, now, stop_event,
                   current_temp, frame, observed>>

\* line 289: while not self.stop_event.is_set()
th_loop ==
    /\ pc["thermal"] = "th_loop"
    /\ Jump("thermal", IF stop_event THEN "th_done" ELSE "th_read")
    /\ UNCHANGED <<devVars, restVars, smVars, lock, entry_callbacks, exit_callbacks, now, stop_event,
                   current_temp, frame, observed>>

\* lines 291-298: the reading is stored, or the read raises
th_read ==
    /\ pc["thermal"] = "th_read"
    /\ \/ \E r \in Readings :
            /\ current_temp' = r
            /\ Jump("thermal", "th_getstate")
       \/ /\ UNCHANGED current_temp
          /\ Jump("thermal", "th_except")
    /\ UNCHANGED <<devVars, restVars, smVars, lock, entry_callbacks, exit_callbacks, now, stop_event,
                   frame, observed>>

\* line 300: current_state = self.state_manager.get_state()
th_getstate ==
    /\ pc["thermal"] = "th_getstate"
    /\ get_state("thermal")
    /\ Jump("thermal", "th_decide")
    /\ UNCHANGED <<devVars, restVars, smVars, lock, entry_callbacks, exit_callbacks, now, stop_event,
                   current_temp, frame>>

\* A supervisor without the critical branch
ThermalTargetNoCritical(temp, state) ==
    IF temp >= TEMP_THROTTLE * 10
         THEN (IF state = RUNNING THEN THROTTLING ELSE NoState)
    ELSE IF temp < TEMP_NORMAL * 10
         THEN (IF state = THROTTLING THEN RUNNING ELSE NoState)
    ELSE NoState

\* lines 303-327: the transition the supervisor requests for a reading and the
\* state it read, NoState when it requests none
ThermalTarget(temp, state) ==
    IF temp >= TEMP_CRITICAL * 10 THEN ERROR
    ELSE IF temp >= TEMP_THROTTLE * 10
         THEN (IF state = RUNNING THEN THROTTLING ELSE NoState)
    ELSE IF temp < TEMP_NORMAL * 10
         THEN (IF state = THROTTLING THEN RUNNING ELSE NoState)
    ELSE NoState

\* lines 308, 317, 326: the reason text of each request
ThermalReason(temp) ==
    IF temp >= TEMP_CRITICAL * 10 THEN Reason("Temperatura critica", temp)
    ELSE IF temp >= TEMP_THROTTLE * 10 THEN Reason("Overheat", temp)
    ELSE Reason("Cooled", temp)

th_decide ==
    /\ pc["thermal"] = "th_decide"
    /\ observed' = [observed EXCEPT !["thermal"] = NoObservation]
    /\ LET target == ThermalTarget(current_temp, observed["thermal"].current)
       IN  IF target # NoState
           THEN TransitionCall("thermal", target, ThermalReason(current_temp), "th_sleep")
           ELSE Jump("thermal", "th_sleep") /\ UNCHANGED frame
    /\ UNCHANGED <<devVars, restVars, smVars, lock, entry_callbacks, exit_callbacks, now, stop_event,
                   current_temp>>

\* line 330: time.sleep(TEMP_CHECK_INTERVAL) after a tick
th_sleep ==
    /\ pc["thermal"] = "th_sleep"
    /\ Jump("thermal", "th_loop")
    /\ UNCHANGED <<devVars, restVars, smVars, lock, entry_callbacks, exit_callbacks, now, stop_event,
                   current_temp, frame, observed>>

\* A failed read that ends the monitor
th_except_fatal ==
    /\ pc["thermal"] = "th_except"
    /\ Jump("thermal", "th_done")
    /\ UNCHANGED <<devVars, restVars, smVars, lock, entry_callbacks, exit_callbacks, now, stop_event,
                   current_temp, frame, observed>>

\* lines 332-334: the failed read is logged and the loop waits one interval
th_except ==
    /\ pc["thermal"] = "th_except"
    /\ Jump("thermal", "th_loop")
    /\ UNCHANGED <<devVars, restVars, smVars, lock, entry_callbacks, exit_callbacks, now, stop_event,
                   current_temp, frame, observed>>

----------------------------------------------------------------------------
\* Any other caller of the StateManager's public methods

c_transition_to(t) ==
    /\ pc[t] = "c_idle"
    /\ \E s \in SystemState :
         TransitionCall(t, s, Reason("client", NoTemp), "c_idle")
    /\ UNCHANGED <<devVars, restVars, smVars, lock, entry_callbacks, exit_callbacks, now, stop_event,
                   current_temp, observed>>

c_get_state(t) ==
    /\ pc[t] = "c_idle"
    /\ get_state(t)
    /\ Jump(t, "c_read")
    /\ UNCHANGED <<devVars, restVars, smVars, lock, entry_callbacks, exit_callbacks, now, stop_event,
                   current_temp, frame>>

c_get_state_info(t) ==
    /\ pc[t] = "c_idle"
    /\ get_state_info(t)
    /\ Jump(t, "c_read")
    /\ UNCHANGED <<devVars, restVars, smVars, lock, entry_callbacks, exit_callbacks, now, stop_event,
                   current_temp, frame>>

\* the caller has used the value it read
c_read(t) ==
    /\ pc[t] = "c_read"
    /\ observed' = [observed EXCEPT ![t] = NoObservation]
    /\ Jump(t, "c_idle")
    /\ UNCHANGED <<devVars, restVars, smVars, lock, entry_callbacks, exit_callbacks, now, stop_event,
                   current_temp, frame>>

----------------------------------------------------------------------------
\* NavigationSystem (src/src/core/navigation_system.py) and Detection
\* (src/src/core/object_inference.py).  Confidences are tenths (0.9 is 9),
\* times are tenths of a second.

MaxDet == 2

MaxTicks == 6

\* constants.py 22-37
AERIAL_OBSTACLES ==
    [c \in {"person", "bicycle", "car", "motorcycle", "bus", "truck", "traffic light",
            "fire hydrant", "stop sign", "bench", "bird", "cat", "dog"} |->
        CASE c = "person" -> 1
          [] c \in {"bicycle", "car", "motorcycle", "bus", "truck"} -> 2
          [] c \in {"traffic light", "fire hydrant", "stop sign"} -> 3
          [] c = "bench" -> 4
          [] OTHER -> 5]

AERIAL_ZONE_Y_MAX == 400

alert_cooldown == 2

\* the clock advances in steps of half a second
TickLen == 5

\* time.time() when the alert engine starts: seconds since 1970, far above the cooldown
ClockStart == alert_cooldown * 10

\* Detections of the model: classes inside and outside the table, two
\* confidences, a box centred just inside the aerial zone and one just outside
ClassNames == {"person", "car", "kite"}

Confidences == {6, 9}

Boxes == {<<0, 300, 100, 499>>, <<0, 300, 100, 500>>}

Detection == [class_name : ClassNames, confidence : Confidences, bbox : Boxes]

Batches == UNION {[1..n -> Detection] : n \in 0..MaxDet}

\* the frames with at most one detection
SmallBatches == {b \in Batches : Len(b) <= 1}

\* Detection.get_center: ((x1 + x2) // 2, (y1 + y2) // 2)
get_center(d) == <<(d.bbox[1] + d.bbox[3]) \div 2, (d.bbox[2] + d.bbox[4]) \div 2>>

\* A zone test on the box's top edge
is_in_aerial_zone_TopEdge(d, zone_y_max) == d.bbox[2] < zone_y_max

\* Detection.is_in_aerial_zone: center_y = (y1 + y2) // 2; center_y < zone_y_max
is_in_aerial_zone(d, zone_y_max) == ((d.bbox[2] + d.bbox[4]) \div 2) < zone_y_max

\* analyze_detections, lines 47-64: the threat kept for a detection
Threat(d) ==
    [object |-> d.class_name, confidence |-> d.confidence,
     priority |-> AERIAL_OBSTACLES[d.class_name], center |-> get_center(d)]

IsAerialThreat(d) ==
    /\ d.class_name \in DOMAIN AERIAL_OBSTACLES
    /\ is_in_aerial_zone(d, AERIAL_ZONE_Y_MAX)

RECURSIVE InsertByPriority(_, _)
\* x goes behind every element whose key is not larger: equal keys keep their order
InsertByPriority(x, sorted) ==
    IF sorted = << >> THEN <<x>>
    ELSE IF Head(sorted).priority <= x.priority
         THEN <<Head(sorted)>> \o InsertByPriority(x, Tail(sorted))
         ELSE <<x>> \o sorted

RECURSIVE SortByPriority(_)
\* line 70: aerial_threats.sort(key=lambda x: x['priority']), a stable sort
SortByPriority(threats) ==
    IF threats = << >> THEN << >>
    ELSE InsertByPriority(threats[Len(threats)],
                          SortByPriority(SubSeq(threats, 1, Len(threats) - 1)))

\* analyze_detections returned None
NoThreats == [count |-> 0, all_threats |-> << >>]

\* analyze_detections, lines 33-76
analyze_detections(dets) ==
    LET kept == SelectSeq(dets, IsAerialThreat)
        aerial_threats == SortByPriority([i \in 1..Len(kept) |-> Threat(kept[i])])
    IN  IF aerial_threats = << >>
        THEN NoThreats
        ELSE [count |-> Len(aerial_threats),
              highest_priority |-> aerial_threats[1],
              all_threats |-> aerial_threats]

\* trigger_alert, lines 99-115: translations.get(object_name, object_name)
Translate(object_name) ==
    CASE object_name = "person" -> "persona"
      [] object_name = "car" -> "automovil"
      [] OTHER -> object_name

\* An alert engine without cooldown
InCooldownNever == FALSE

\* trigger_alert, line 89: current_time - self._last_alert_time < self._alert_cooldown
InCooldown == clock - last_alert_time < alert_cooldown * 10

\* A suppressed call restarts the quiet period
trigger_alert_Extends(info) ==
    IF InCooldown
    THEN /\ last_alert_time' = clock
         /\ UNCHANGED voice_requests
    ELSE /\ last_alert_time' = clock
         /\ voice_requests' =
              IF voice # "None"
              THEN Append(voice_requests,
                          [time |-> clock,
                           message |-> <<"Cuidado, ",
                                         Translate(info.highest_priority.object),
                                         " adelante">>])
              ELSE voice_requests

\* trigger_alert, lines 78-124
trigger_alert(info) ==
    IF InCooldown
    THEN UNCHANGED <<last_alert_time, voice_requests>>
    ELSE /\ last_alert_time' = clock
         /\ voice_requests' =
              IF voice # "None"
              THEN Append(voice_requests,
                          [time |-> clock,
                           message |-> <<"Cuidado, ",
                                         Translate(info.highest_priority.object),
                                         " adelante">>])
              ELSE voice_requests

\* A caller invokes analyze_detections on a batch and keeps the result
nav_analyze(batch) ==
    /\ detections' = batch
    /\ threat_info' = analyze_detections(batch)
    /\ UNCHANGED <<lifeVars, devVars, trkVars, stopVars, tofVars, extVars, voice, clock, last_alert_time,
                   voice_requests>>

\* process_frame_navigation, lines 130-142, for one batch of detections
process_frame_navigation(batch) ==
    /\ detections' = batch
    /\ LET info == analyze_detections(batch)
       IN  /\ threat_info' = info
           /\ IF info # NoThreats
              THEN trigger_alert(info)
              ELSE UNCHANGED <<last_alert_time, voice_requests>>
    /\ UNCHANGED <<lifeVars, devVars, trkVars, stopVars, tofVars, extVars, voice, clock>>

\* half a second passes between two frames
nav_tick ==
    /\ clock < ClockStart + MaxTicks * TickLen
    /\ clock' = clock + TickLen
    /\ UNCHANGED <<lifeVars, devVars, trkVars, stopVars, tofVars, extVars, voice, last_alert_time, voice_requests,
                   detections, threat_info>>

\* main.py 209-213, navigation_system.py 22-31: the engine as main.py builds
\* it, with the voice interface of a successful initialization
InitNavigation ==
    /\ voice = "VoiceInterface"
    /\ clock = ClockStart
    /\ last_alert_time = 0
    /\ voice_requests = << >>
    /\ detections = << >>
    /\ threat_info = NoThreats

----------------------------------------------------------------------------
\* RunTracking (src/src/core/run_tracking_state.py): process() starts the
\* inference thread and the audio thread; stop() ends the session.  A queue
\* item is the label together with its position among all the puts, so that
\* two equal labels can be told apart.  translations_map is taken to hold
\* every label (assets/translations.json).

MaxIds == 2

TrackIds == 1..MaxIds

Labels == {"person", "Object"}

TrackingThreads == {"tracking", "inference", "audio"}

\* the poison pill stop() puts on the queue
Sentinel == [label |-> "None", n |-> 0]

NoItem == [label |-> "", n |-> 0]

\* stop has not been called
NoMark == [spoken |-> 0 - 1, accepted |-> 0]

TJump(t, p) == tpc' = [tpc EXCEPT ![t] = p]

\* process, lines 314-323: running is raised and both threads are started
tk_process ==
    /\ tpc["tracking"] = "tk_process"
    /\ ~running
    /\ running' = TRUE
    /\ tpc' = [tpc EXCEPT !["tracking"] = "tk_wait", !["inference"] = "ri_loop",
                          !["audio"] = "an_start"]
    /\ UNCHANGED <<lifeVars, devVars, navVars, stopVars, tofVars, extVars, logged_ids, active_ids,
                   speak_labels_queue, enqueued, seen_ids, spoken, current_frame_ids,
                   new_ids, speak_label>>

\* stop, line 273: called on KeyboardInterrupt or by Context.transition_to
tk_stop ==
    /\ tpc["tracking"] = "tk_wait"
    /\ running' = FALSE
    /\ stop_mark' = [spoken |-> Len(spoken),
                     accepted |-> IF tpc["audio"] = "an_speak" THEN speak_label.n ELSE 0]
    /\ TJump("tracking", "tk_clear")
    /\ UNCHANGED <<lifeVars, devVars, navVars, join_timeouts, diagnostics, tofVars, extVars, logged_ids, active_ids,
                   speak_labels_queue, enqueued, seen_ids, spoken, current_frame_ids,
                   new_ids, speak_label>>

\* stop, lines 277-278: the queue is emptied
tk_clear ==
    /\ tpc["tracking"] = "tk_clear"
    /\ speak_labels_queue' = << >>
    /\ TJump("tracking", "tk_sentinel")
    /\ UNCHANGED <<lifeVars, devVars, navVars, stopVars, tofVars, extVars, running, logged_ids, active_ids,
                   enqueued, seen_ids, spoken, current_frame_ids, new_ids, speak_label>>

\* Queue.put on the Queue() of line 49: no maxsize, so put never blocks or fails
QueuePut(q, item) == Append(q, item)

\* A queue that hands out its newest item
QueueGet_Lifo(q) == [item |-> q[Len(q)], rest |-> SubSeq(q, 1, Len(q) - 1)]

\* Queue.get on a queue that is not empty
QueueGet(q) == [item |-> Head(q), rest |-> Tail(q)]

\* stop, line 279: the poison pill
tk_sentinel ==
    /\ tpc["tracking"] = "tk_sentinel"
    /\ speak_labels_queue' = QueuePut(speak_labels_queue, Sentinel)
    /\ TJump("tracking", "tk_join_audio")
    /\ UNCHANGED <<lifeVars, devVars, navVars, stopVars, tofVars, extVars, running, logged_ids, active_ids,
                   enqueued, seen_ids, spoken, current_frame_ids, new_ids, speak_label>>

\* The positions at which a thread of the tracking session has ended
TEnded == {"off", "an_done", "an_absent", "ri_done"}

\* stop, lines 282-286: an audio thread that is alive is joined for at most
\* ten seconds, and one that outlives the join is reported
tk_join_audio ==
    /\ tpc["tracking"] = "tk_join_audio"
    /\ \/ /\ tpc["audio"] \in TEnded
          /\ UNCHANGED <<join_timeouts, diagnostics>>
       \/ /\ tpc["audio"] \notin TEnded
          /\ join_timeouts' = join_timeouts \cup {"audio"}
          /\ diagnostics' = diagnostics \cup {"audio"}
    /\ TJump("tracking", "tk_join")
    /\ UNCHANGED <<lifeVars, devVars, navVars, stop_mark, tofVars, extVars, running, logged_ids,
                   active_ids, speak_labels_queue, enqueued, seen_ids, spoken,
                   current_frame_ids, new_ids, speak_label>>

\* stop, lines 289-298: the inference thread is joined with no timeout, so the
\* call returns only once that thread has ended
tk_join ==
    /\ tpc["tracking"] = "tk_join"
    /\ tpc["inference"] = "ri_done"
    /\ TJump("tracking", "tk_stopped")
    /\ UNCHANGED <<lifeVars, devVars, navVars, stopVars, tofVars, extVars, running, logged_ids, active_ids,
                   speak_labels_queue, enqueued, seen_ids, spoken, current_frame_ids,
                   new_ids, speak_label>>

\* _run_inference_loop, line 133: while self.running
ri_loop ==
    /\ tpc["inference"] = "ri_loop"
    /\ TJump("inference", IF running THEN "ri_frame" ELSE "ri_done")
    /\ UNCHANGED <<lifeVars, devVars, navVars, stopVars, tofVars, extVars, running, logged_ids, active_ids,
                   speak_labels_queue, enqueued, seen_ids, spoken, current_frame_ids,
                   new_ids, speak_label>>

\* A frame whose IDs are all taken for new
NewIdsAll(frame_ids, logged) == frame_ids

\* line 222: new_ids = current_frame_ids - self.logged_ids
NewIds(frame_ids, logged) == frame_ids \ logged

\* lines 136-222: capture, inference and tracking give the frame's accepted
\* track IDs, or one of them raises
ri_frame ==
    /\ tpc["inference"] = "ri_frame"
    /\ \/ \E ids \in SUBSET TrackIds :
            /\ current_frame_ids' = ids
            /\ new_ids' = NewIds(ids, logged_ids)
            /\ TJump("inference", IF NewIds(ids, logged_ids) # {} THEN "ri_put"
                                                                ELSE "ri_finish")
       \/ /\ UNCHANGED <<current_frame_ids, new_ids>>
          /\ TJump("inference", "ri_except")
    /\ UNCHANGED <<lifeVars, devVars, navVars, stopVars, tofVars, extVars, running, logged_ids, active_ids,
                   speak_labels_queue, enqueued, seen_ids, spoken, speak_label>>

\* lines 136-139: capture_array and infer are blocking driver calls; one that
\* never returns leaves the thread alive inside the loop for good
ri_block ==
    /\ tpc["inference"] = "ri_frame"
    /\ TJump("inference", "ri_blocked")
    /\ UNCHANGED <<lifeVars, devVars, navVars, stopVars, tofVars, extVars, running, logged_ids, active_ids,
                   speak_labels_queue, enqueued, seen_ids, spoken, current_frame_ids,
                   new_ids, speak_label>>

\* lines 238-242: one pass of the for loop puts the label the frame gave the ID
ri_put ==
    /\ tpc["inference"] = "ri_put"
    /\ \E uid \in new_ids, label \in Labels :
         /\ enqueued' = Append(enqueued, [uid |-> uid, label |-> label])
         /\ speak_labels_queue' =
              QueuePut(speak_labels_queue, [label |-> label, n |-> Len(enqueued) + 1])
         /\ new_ids' = new_ids \ {uid}
         /\ TJump("inference", IF new_ids = {uid} THEN "ri_update" ELSE "ri_put")
    /\ UNCHANGED <<lifeVars, devVars, navVars, stopVars, tofVars, extVars, running, logged_ids, active_ids,
                   seen_ids, spoken, current_frame_ids, speak_label>>

\* line 249: self.logged_ids.update(new_ids)
ri_update ==
    /\ tpc["inference"] = "ri_update"
    /\ logged_ids' = logged_ids \cup NewIds(current_frame_ids, logged_ids)
    /\ TJump("inference", "ri_finish")
    /\ UNCHANGED <<lifeVars, devVars, navVars, stopVars, tofVars, extVars, running, active_ids, speak_labels_queue,
                   enqueued, seen_ids, spoken, current_frame_ids, new_ids, speak_label>>

\* lines 252-264: the frame ends
ri_finish ==
    /\ tpc["inference"] = "ri_finish"
    /\ active_ids' = current_frame_ids
    /\ seen_ids' = seen_ids \cup current_frame_ids
    /\ TJump("inference", "ri_loop")
    /\ UNCHANGED <<lifeVars, devVars, navVars, stopVars, tofVars, extVars, running, logged_ids, speak_labels_queue,
                   enqueued, spoken, current_frame_ids, new_ids, speak_label>>

\* lines 266-268: the failure is printed and running is lowered
ri_except ==
    /\ tpc["inference"] = "ri_except"
    /\ running' = FALSE
    /\ TJump("inference", "ri_loop")
    /\ UNCHANGED <<lifeVars, devVars, navVars, stopVars, tofVars, extVars, logged_ids, active_ids,
                   speak_labels_queue, enqueued, seen_ids, spoken, current_frame_ids,
                   new_ids, speak_label>>

\* _announce_object_loop, lines 105-107: without an audio driver the loop is
\* never entered
an_start ==
    /\ tpc["audio"] = "an_start"
    /\ \E driver_audio \in BOOLEAN :
         TJump("audio", IF driver_audio THEN "an_loop" ELSE "an_absent")
    /\ UNCHANGED <<lifeVars, devVars, navVars, stopVars, tofVars, extVars, running, logged_ids, active_ids,
                   speak_labels_queue, enqueued, seen_ids, spoken, current_frame_ids,
                   new_ids, speak_label>>

\* line 109: while self.running
an_loop ==
    /\ tpc["audio"] = "an_loop"
    /\ TJump("audio", IF running THEN "an_get" ELSE "an_done")
    /\ UNCHANGED <<lifeVars, devVars, navVars, stopVars, tofVars, extVars, running, logged_ids, active_ids,
                   speak_labels_queue, enqueued, seen_ids, spoken, current_frame_ids,
                   new_ids, speak_label>>

\* A get() with no timeout: it waits until the queue holds an item
an_get_Blocking ==
    /\ tpc["audio"] = "an_get"
    /\ speak_labels_queue # << >>
    /\ speak_label' = QueueGet(speak_labels_queue).item
    /\ speak_labels_queue' = QueueGet(speak_labels_queue).rest
    /\ TJump("audio", "an_check")
    /\ UNCHANGED <<lifeVars, devVars, navVars, stopVars, tofVars, extVars, running, logged_ids, active_ids,
                   enqueued, seen_ids, spoken, current_frame_ids, new_ids>>

\* lines 112, 121-124: get(timeout=0.5) returns an item, or times out on an
\* empty queue and the loop goes round
an_get ==
    /\ tpc["audio"] = "an_get"
    /\ IF speak_labels_queue # << >>
       THEN /\ speak_label' = QueueGet(speak_labels_queue).item
            /\ speak_labels_queue' = QueueGet(speak_labels_queue).rest
            /\ TJump("audio", "an_check")
       ELSE /\ UNCHANGED <<speak_label, speak_labels_queue>>
            /\ TJump("audio", "an_loop")
    /\ UNCHANGED <<lifeVars, devVars, navVars, stopVars, tofVars, extVars, running, logged_ids, active_ids,
                   enqueued, seen_ids, spoken, current_frame_ids, new_ids>>

\* A check that looks at the item only, not at the flag
an_check_NoRecheck ==
    /\ tpc["audio"] = "an_check"
    /\ IF speak_label = Sentinel
       THEN /\ speak_label' = NoItem
            /\ TJump("audio", "an_done")
       ELSE /\ UNCHANGED speak_label
            /\ TJump("audio", "an_speak")
    /\ UNCHANGED <<lifeVars, devVars, navVars, stopVars, tofVars, extVars, running, logged_ids, active_ids,
                   speak_labels_queue, enqueued, seen_ids, spoken, current_frame_ids,
                   new_ids>>

\* lines 116-117: if speak_label is None or not self.running: break
an_check ==
    /\ tpc["audio"] = "an_check"
    /\ IF speak_label = Sentinel \/ ~running
       THEN /\ speak_label' = NoItem
            /\ TJump("audio", "an_done")
       ELSE /\ UNCHANGED speak_label
            /\ TJump("audio", "an_speak")
    /\ UNCHANGED <<lifeVars, devVars, navVars, stopVars, tofVars, extVars, running, logged_ids, active_ids,
                   speak_labels_queue, enqueued, seen_ids, spoken, current_frame_ids,
                   new_ids>>

\* lines 119-126: the label is handed to driver_audio.speak; whether speak
\* returns or raises, the loop goes round
an_speak ==
    /\ tpc["audio"] = "an_speak"
    /\ spoken' = Append(spoken, speak_label)
    /\ speak_label' = NoItem
    /\ TJump("audio", "an_loop")
    /\ UNCHANGED <<lifeVars, devVars, navVars, stopVars, tofVars, extVars, running, logged_ids, active_ids,
                   speak_labels_queue, enqueued, seen_ids, current_frame_ids, new_ids>>

\* RunTracking.__init__, lines 23-49
InitTracking ==
    /\ running = FALSE
    /\ logged_ids = {}
    /\ active_ids = {}
    /\ speak_labels_queue = << >>
    /\ enqueued = << >>
    /\ seen_ids = {}
    /\ spoken = << >>
    /\ tpc = [t \in TrackingThreads |-> IF t = "tracking" THEN "tk_process" ELSE "off"]
    /\ current_frame_ids = {}
    /\ new_ids = {}
    /\ speak_label = NoItem
    /\ stop_mark = NoMark
    /\ join_timeouts = {}
    /\ diagnostics = {}

----------------------------------------------------------------------------
\* TofDriver (src/src/drivers/tof.py): an 8x8 matrix of distances in
\* millimetres, matrix[<<row, col>>], is looked at by detect_hole and by
\* detect_air_obstacle.  Distances are whole millimetres (distance_mm), the
\* baseline is a whole number in the model, and a mean is compared with a
\* threshold by comparing the sum with the threshold times the count, which is
\* the same comparison without the division.

Rows == 0..7

Cols == 0..7

Cells == Rows \X Cols

Zones == {"izquierda", "medio", "derecha"}

\* line 155: the order in which the dict of zone averages is built
ZoneOrder == <<"izquierda", "medio", "derecha">>

NoBaseline == 0 - 1

NoArgs == [baseline_floor |-> 0, angle_grad |-> 0]

NoCall == [op |-> "none", prev |-> "none", matrix |-> [c \in Cells |-> 0],
           result |-> <<FALSE, "">>]

\* line 80: 1 / math.cos(math.radians(angle_grad)) for the mounting angles of
\* the model; cos(60 degrees) is taken as 1/2
InverseCos(angle_grad) == IF angle_grad = 60 THEN 2 ELSE 1

\* lines 78-82: the distance to the floor along the line of sight
hip(args) == args.baseline_floor * InverseCos(args.angle_grad)

\* The arguments of the constructor: a sensor looking straight down from
\* 1000 mm and from 1100 mm, and one tilted by 60 degrees at 1900 mm
ConstructorArgs ==
    {[baseline_floor |-> 1000, angle_grad |-> 0],
     [baseline_floor |-> 1100, angle_grad |-> 0],
     [baseline_floor |-> 1900, angle_grad |-> 60]}

\* TofDriver.__init__, lines 48-84
tof_init(args) ==
    /\ baseline_floor = NoBaseline
    /\ tof_args' = args
    /\ baseline_floor' = hip(args)
    /\ UNCHANGED <<lifeVars, devVars, navVars, trkVars, stopVars, extVars, tof_call>>

RECURSIVE SumCells(_, _)
\* sum(...) over the cells of a matrix
SumCells(matrix, cells) ==
    IF cells = {}
    THEN 0
    ELSE LET c == CHOOSE x \in cells : TRUE
         IN  matrix[c] + SumCells(matrix, cells \ {c})

\* Readings are looked for in every row of the matrix
valid_readings_AllRows(matrix) == {c \in Cells : matrix[c] > 0}

\* line 109: the cells of rows 0 and 1 with a reading above zero
valid_readings(matrix) == {c \in (0..1) \X Cols : matrix[c] > 0}

\* lines 124 and 144: the jump, in millimetres, that makes a drop
HoleMargin == 300

\* line 136: the distance a zero stands for
InfiniteDistance == 4000

\* A zero is left as it is
treat_zero_Raw(v) == v

\* lines 136-138: 4000 if v == 0 else v
treat_zero(v) == IF v = 0 THEN InfiniteDistance ELSE v

\* lines 131-133: the pixels of rows 0 and 1 in columns 0:3, 3:5 and 5:8
zone_pixels(zone) ==
    (0..1) \X (CASE zone = "izquierda" -> 0..2
                 [] zone = "medio" -> 3..4
                 [] zone = "derecha" -> 5..7)

\* The check for a total drop never succeeds
total_drop_Never(dangerous_zones) == FALSE

\* lines 147-151: all three averages are above the threshold
total_drop(dangerous_zones) == dangerous_zones = Zones

\* lines 102-164; the result is the tuple the method returns
detect_hole(matrix, baseline) ==
    LET valid == valid_readings(matrix)
        n == Cardinality(valid)
        total == SumCells(matrix, valid)
    IN  IF valid = {}
        THEN <<TRUE, "frente completo">>
        ELSE IF total - baseline * n > HoleMargin * n
        THEN LET pixels == [c \in Cells |-> treat_zero(matrix[c])]
                 sum(z) == SumCells(pixels, zone_pixels(z))
                 len(z) == Cardinality(zone_pixels(z))
                 danger_threshold == baseline + HoleMargin
                 dangerous_zones ==
                     {z \in Zones : sum(z) > danger_threshold * len(z)}
                 \* avg(y) > avg(z)
                 deeper(y, z) == sum(y) * len(z) > sum(z) * len(y)
                 \* max(dangerous_zones, key=...): the first of the deepest
                 position ==
                     ZoneOrder[CHOOSE i \in 1..3 :
                         /\ ZoneOrder[i] \in dangerous_zones
                         /\ \A y \in dangerous_zones : ~deeper(y, ZoneOrder[i])
                         /\ \A j \in 1..(i - 1) :
                              ZoneOrder[j] \in dangerous_zones
                              => deeper(ZoneOrder[i], ZoneOrder[j])]
             IN  IF total_drop(dangerous_zones)
                 THEN <<TRUE, "frente completo (caída total)">>
                 ELSE IF dangerous_zones # {}
                 THEN <<TRUE, position>>
                 ELSE <<FALSE, "">>
        ELSE <<FALSE, "">>

\* The baseline follows the readings: the update of line 163, in whole millimetres
baseline_after_Smoothed(matrix, baseline) ==
    LET valid == valid_readings(matrix)
    IN  IF valid = {}
        THEN baseline
        ELSE (baseline * 9 + SumCells(matrix, valid) \div Cardinality(valid)) \div 10

\* detect_hole's effect on self.baseline_floor: the assignment of lines 117-119
\* needs a baseline of None, which __init__ never leaves, and the update of
\* line 163 is commented out
baseline_after(matrix, baseline) == baseline

\* one call of detect_hole on a frame of the sensor
tof_detect_hole(matrix) ==
    /\ baseline_floor # NoBaseline
    /\ tof_call' = [op |-> "detect_hole", prev |-> tof_call.op, matrix |-> matrix,
                    result |-> detect_hole(matrix, baseline_floor)]
    /\ baseline_floor' = baseline_after(matrix, baseline_floor)
    /\ UNCHANGED <<lifeVars, devVars, navVars, trkVars, stopVars, extVars, tof_args>>

\* line 182: the distance below which something in the air is an obstacle
AirLimit == 1500

\* The limit itself counts as an obstacle
in_air_range_Inclusive(distance) == 0 < distance /\ distance <= AirLimit

\* line 182: 0 < distance < 1500
in_air_range(distance) == 0 < distance /\ distance < AirLimit

\* lines 177-188: the flag of the columns up to 2, from 5 on, or between
zone_danger(matrix, zone) ==
    \E row \in 0..2, col \in Cols :
        /\ in_air_range(matrix[<<row, col>>])
        /\ zone = IF col <= 2 THEN "izquierda"
                  ELSE IF col >= 5 THEN "derecha"
                  ELSE "medio"

\* lines 166-216
detect_air_obstacle(matrix) ==
    LET left_danger == zone_danger(matrix, "izquierda")
        center_danger == zone_danger(matrix, "medio")
        right_danger == zone_danger(matrix, "derecha")
    IN  IF ~(left_danger \/ center_danger \/ right_danger) THEN <<FALSE, "">>
        ELSE IF left_danger /\ center_danger /\ right_danger THEN <<TRUE, "pared">>
        ELSE IF left_danger /\ right_danger /\ ~center_danger THEN <<TRUE, "ambos lados">>
        ELSE IF left_danger /\ center_danger THEN <<TRUE, "frente e izquierda">>
        ELSE IF right_danger /\ center_danger THEN <<TRUE, "frente y derecha">>
        ELSE IF center_danger THEN <<TRUE, "frente">>
        ELSE IF left_danger THEN <<TRUE, "izquierda">>
        ELSE IF right_danger THEN <<TRUE, "derecha">>
        ELSE <<FALSE, "">>

\* one call of detect_air_obstacle on a frame of the sensor
tof_detect_air_obstacle(matrix) ==
    /\ baseline_floor # NoBaseline
    /\ tof_call' = [op |-> "detect_air_obstacle", prev |-> tof_call.op,
                    matrix |-> matrix, result |-> detect_air_obstacle(matrix)]
    /\ UNCHANGED <<lifeVars, devVars, navVars, trkVars, stopVars, extVars, tof_args, baseline_floor>>

\* get_matrix, lines 86-100: the frames of the model.  A frame carries, in the
\* rows named, one reading per third of the width, another reading in all the
\* other rows, and possibly a reading of its own in the corner cell
FrameOf(vals, rows, fill, corner) ==
    [c \in Cells |->
        IF c = <<0, 0>> /\ corner >= 0 THEN corner
        ELSE IF c[1] \in rows
             THEN vals[IF c[2] <= 2 THEN "izquierda"
                       ELSE IF c[2] >= 5 THEN "derecha" ELSE "medio"]
             ELSE fill]

\* readings of the floor: none, near, at and beyond the margin
HoleReadings == {0, 1100, 1400, 2000}

\* a reading beyond the distance a zero stands for
FarReading == 4200

HoleFrames ==
    {FrameOf(vals, {0, 1}, fill, corner) :
        vals \in [Zones -> HoleReadings], fill \in {0, 1000},
        corner \in {0 - 1, 0, FarReading}}

\* readings in the air: none, near, just below the limit and at the limit
AirReadings == {0, 1000, 1499, 1500}

AirFrames ==
    {FrameOf(vals, rows, fill, 0 - 1) :
        vals \in [Zones -> AirReadings], rows \in {{0}, {2}, {3}},
        fill \in {0, 2000}}

SomeFrames ==
    {FrameOf(vals, {0, 1}, fill, 0 - 1) :
        vals \in [Zones -> {0, 1400}], fill \in {0, 1000}}

\* No TofDriver has been constructed yet
InitTof ==
    /\ baseline_floor = NoBaseline
    /\ tof_args = NoArgs
    /\ tof_call = NoCall

TofInit == \E args \in ConstructorArgs : tof_init(args)

----------------------------------------------------------------------------
\* SensorFusion (sensor_fusion.py)

\* timestamp=None: the method reads time.time() itself
NoStamp == 0 - 1

NoPerception ==
    [visual |-> [detections |-> << >>, timestamp |-> 0],
     tof |-> [distances |-> << >>, timestamp |-> 0],
     confidence |-> 0]

\* __init__, lines 16-25
InitFusion ==
    /\ fusion = [last_camera_timestamp |-> 0, last_tof_timestamp |-> 0,
                 visual_detections |-> << >>, tof_distances |-> << >>,
                 confidence_score |-> 0]
    /\ fusion_call = [op |-> "none", data |-> << >>, timestamp |-> NoStamp, time |-> 0,
                      result |-> NoPerception]

\* Batches of detections (class and confidence in percent) whose mean
\* confidence is a whole number, and batches of distances in millimetres
VisualBatches ==
    {<< >>,
     <<[class_name |-> "person", confidence |-> 60]>>,
     <<[class_name |-> "car", confidence |-> 60], [class_name |-> "dog", confidence |-> 90]>>,
     <<[class_name |-> "car", confidence |-> 90], [class_name |-> "bus", confidence |-> 60],
       [class_name |-> "dog", confidence |-> 90]>>}

TofBatches == {<< >>, <<1200>>, <<800, 1500>>}

\* The timestamp argument: absent, older than any reading of the clock, or
\* between two readings
Stamps == {NoStamp, 7, 32}

RECURSIVE SumConfidence(_)
SumConfidence(ds) ==
    IF ds = << >> THEN 0 ELSE ds[1].confidence + SumConfidence(Tail(ds))

\* lines 42-46: the mean confidence of the batch, 0.0 for an empty one
avg_confidence(ds) ==
    IF Len(ds) > 0 THEN SumConfidence(ds) \div Len(ds) ELSE 0

\* lines 34-35, 56-57: if timestamp is None: timestamp = time.time()
stamp_of(timestamp) == IF timestamp = NoStamp THEN clock ELSE timestamp

\* update_visual_data, lines 27-46
update_visual_data(ds, timestamp) ==
    /\ fusion' = [fusion EXCEPT !.last_camera_timestamp = stamp_of(timestamp),
                                !.visual_detections = ds,
                                !.confidence_score = avg_confidence(ds)]
    /\ fusion_call' = [op |-> "update_visual_data", data |-> ds, timestamp |-> timestamp,
                       time |-> clock, result |-> NoPerception]
    /\ UNCHANGED <<baseVars, lblVars, ctxVars>>

\* A depth update that also clears the confidence
tof_update_ClearsConfidence(distances, timestamp) ==
    [fusion EXCEPT !.last_tof_timestamp = stamp_of(timestamp),
                   !.tof_distances = distances,
                   !.confidence_score = 0]

\* update_tof_data, lines 56-60: the fields after the call
tof_update(distances, timestamp) ==
    [fusion EXCEPT !.last_tof_timestamp = stamp_of(timestamp),
                   !.tof_distances = distances]

\* update_tof_data, lines 48-60
update_tof_data(distances, timestamp) ==
    /\ fusion' = tof_update(distances, timestamp)
    /\ fusion_call' = [op |-> "update_tof_data", data |-> distances, timestamp |-> timestamp,
                       time |-> clock, result |-> NoPerception]
    /\ UNCHANGED <<baseVars, lblVars, ctxVars>>

\* get_fused_perception, lines 62-82
get_fused_perception ==
    /\ fusion_call' =
          [op |-> "get_fused_perception", data |-> << >>, timestamp |-> NoStamp,
           time |-> clock,
           result |-> [visual |-> [detections |-> fusion.visual_detections,
                                   timestamp |-> fusion.last_camera_timestamp],
                       tof |-> [distances |-> fusion.tof_distances,
                                timestamp |-> fusion.last_tof_timestamp],
                       confidence |-> fusion.confidence_score]]
    /\ UNCHANGED <<baseVars, fusion, lblVars, ctxVars>>

----------------------------------------------------------------------------
\* RunTracking._run_inference_loop: the label of a track (run_tracking_state.py
\* 176-216)

NoLabelCall == [track |-> <<0, 0, 1, 1>>, detections |-> << >>, label |-> "None"]

InitLabel == label_call = NoLabelCall

\* Tracks as (x1, y1, w, h): one the loop accepts and one too small for it
Tracks == {<<0, 0, 4, 4>>, <<0, 0, 3, 3>>}

\* Boxes as (x1, y1, x2, y2): they cover none, half, three quarters and the
\* whole of the first track, the last one reaching beyond it
LabelBoxes == {<<4, 4, 8, 8>>, <<0, 0, 4, 2>>, <<1, 0, 4, 4>>, <<0, 0, 6, 5>>}

\* clean_detections: (label, bbox) pairs, in the order extract_detections gave
CleanDetections ==
    UNION {[1..n -> [label : {"person", "car"}, bbox : LabelBoxes]] : n \in 0..3}

Max2(a, b) == IF a > b THEN a ELSE b

Min2(a, b) == IF a < b THEN a ELSE b

\* lines 197-204: the area of the intersection of the track and a detection box
intersection(track, bbox) ==
    LET ix1 == Max2(track[1], bbox[1])
        iy1 == Max2(track[2], bbox[2])
        ix2 == Min2(track[1] + track[3], bbox[3])
        iy2 == Min2(track[2] + track[4], bbox[4])
    IN  Max2(0, ix2 - ix1) * Max2(0, iy2 - iy1)

\* A threshold that a ratio of exactly one half passes
over_half_Inclusive(inter, t_area) == 2 * inter >= t_area

\* line 209: match_score > 0.5, with match_score = intersection / t_area
over_half(inter, t_area) == 2 * inter > t_area

\* lines 192-211: the for loop over clean_detections from position i on, with
\* the best intersection and the label found so far
RECURSIVE match_label(_, _, _, _, _)
match_label(track, dets, i, best, label_str) ==
    IF i > Len(dets) THEN label_str
    ELSE LET inter == intersection(track, dets[i].bbox)
             t_area == track[3] * track[4]
         IN  IF t_area > 0 /\ inter > best /\ over_half(inter, t_area)
             THEN match_label(track, dets, i + 1, inter, dets[i].label)
             ELSE match_label(track, dets, i + 1, best, label_str)

\* lines 179-181: the track is wide enough and not flat (w / h > 1.6)
track_accepted(track) ==
    track[3] * track[4] > 10 /\ ~(10 * track[3] > 16 * track[4])

\* lines 176-216 for one track of the frame: an accepted track gets its label,
\* any other track is passed over
resolve_label(track, dets) ==
    /\ label_call' = [track |-> track, detections |-> dets,
                      label |-> IF track_accepted(track)
                                THEN match_label(track, dets, 1, 0, "Object")
                                ELSE "None"]
    /\ UNCHANGED <<baseVars, fusVars, ctxVars>>

----------------------------------------------------------------------------
\* Context and its states (context.py, overheat_state.py, init.py, run_tracking.py)

\* The thread that calls Context.run again and again, and the thread of
\* _check_cpu_temperature
CtxThreads == {"runner", "monitor"}

\* context.py line 41: a reading above it switches to OverheatState
OverheatAbove == 49

\* overheat_state.py line 37: a reading below it ends the cooling
CooledBelow == 47

\* get_cpu_temperature: degrees on both sides of the two thresholds, or None
CtxReadings == {NoTemp, 40, 46, 47, 49, 50, 55}

NoLocal == [obj |-> "None", temp |-> NoTemp, target |-> "None"]

\* Context(InitState()) has been constructed: the monitor thread runs and the
\* first state is in place
InitContext ==
    /\ ctx_state = "InitState"
    /\ ctx_pc = [t \in CtxThreads |-> IF t = "runner" THEN "r_idle" ELSE "mon_read"]
    /\ ctx_local = [t \in CtxThreads |-> NoLocal]
    /\ alert_sent = FALSE

CJump(t, p) == ctx_pc' = [ctx_pc EXCEPT ![t] = p]

\* A thread calls transition_to(state)
ctx_call(t, state) ==
    /\ ctx_local' = [ctx_local EXCEPT ![t].target = state]
    /\ CJump(t, "ct_begin")

\* The locals of a thread when its transition_to has returned: process returns
\* to run, the monitor's loop keeps its reading
after_call(t) ==
    IF t = "runner" THEN NoLocal ELSE [ctx_local[t] EXCEPT !.target = "None"]

\* transition_to, lines 51-58: nothing is done for a state of the current
\* class; otherwise the current state is stopped.  No lock is held
ct_begin(t) ==
    /\ ctx_pc[t] = "ct_begin"
    /\ IF ctx_state = ctx_local[t].target
       THEN /\ CJump(t, IF t = "runner" THEN "r_idle" ELSE "mon_sleep")
            /\ ctx_local' = [ctx_local EXCEPT ![t] = after_call(t)]
       ELSE /\ CJump(t, "ct_assign")
            /\ UNCHANGED ctx_local
    /\ UNCHANGED <<baseVars, fusVars, lblVars, ctx_state, alert_sent>>

\* transition_to, lines 60-61: self._state = state; a new OverheatState has
\* sent no alert yet (overheat_state.py line 15)
ct_assign(t) ==
    /\ ctx_pc[t] = "ct_assign"
    /\ ctx_state' = ctx_local[t].target
    /\ alert_sent' = IF ctx_local[t].target = "OverheatState" THEN FALSE ELSE alert_sent
    /\ CJump(t, IF t = "runner" THEN "r_idle" ELSE "mon_sleep")
    /\ ctx_local' = [ctx_local EXCEPT ![t] = after_call(t)]
    /\ UNCHANGED <<baseVars, fusVars, lblVars>>

\* run, line 64: self._state.process() on the state object of that moment
ctx_run ==
    /\ ctx_pc["runner"] = "r_idle"
    /\ ctx_local' = [ctx_local EXCEPT !["runner"].obj = ctx_state]
    /\ CJump("runner", CASE ctx_state = "InitState" -> "in_process"
                          [] ctx_state = "RunTracking" -> "rt_process"
                          [] OTHER -> "oh_process")
    /\ UNCHANGED <<baseVars, fusVars, lblVars, ctx_state, alert_sent>>

\* InitState.process, init.py lines 7-50: the drivers are initialized; on
\* success RunTracking is requested, on a failure process returns
in_process ==
    /\ ctx_pc["runner"] = "in_process"
    /\ \E ok \in BOOLEAN :
         IF ok
         THEN ctx_call("runner", "RunTracking")
         ELSE /\ CJump("runner", "r_idle")
              /\ ctx_local' = [ctx_local EXCEPT !["runner"] = NoLocal]
    /\ UNCHANGED <<baseVars, fusVars, lblVars, ctx_state, alert_sent>>

\* RunTracking.process, run_tracking.py lines 180-202: it returns when the
\* session is stopped or its inference thread has failed
rt_process ==
    /\ ctx_pc["runner"] = "rt_process"
    /\ CJump("runner", "r_idle")
    /\ ctx_local' = [ctx_local EXCEPT !["runner"] = NoLocal]
    /\ UNCHANGED <<baseVars, fusVars, lblVars, ctx_state, alert_sent>>

\* OverheatState.process, lines 21-43: the first call announces the cooling;
\* a later call reads the temperature and requests InitState below 47
oh_process ==
    /\ ctx_pc["runner"] = "oh_process"
    /\ IF ~alert_sent
       THEN /\ alert_sent' = TRUE
            /\ CJump("runner", "r_idle")
            /\ ctx_local' = [ctx_local EXCEPT !["runner"] = NoLocal]
       ELSE /\ UNCHANGED alert_sent
            /\ \E temperature \in CtxReadings :
                 IF temperature # NoTemp /\ temperature < CooledBelow
                 THEN /\ ctx_local' = [ctx_local EXCEPT !["runner"].temp = temperature,
                                                        !["runner"].target = "InitState"]
                      /\ CJump("runner", "ct_begin")
                 ELSE /\ CJump("runner", "r_idle")
                      /\ ctx_local' = [ctx_local EXCEPT !["runner"] = NoLocal]
    /\ UNCHANGED <<baseVars, fusVars, lblVars, ctx_state>>

\* _check_cpu_temperature, lines 37-41: a reading; above 49 the state is
\* looked at, otherwise the loop sleeps
mon_read ==
    /\ ctx_pc["monitor"] = "mon_read"
    /\ \E temperature \in CtxReadings :
         /\ ctx_local' = [ctx_local EXCEPT !["monitor"] =
                             [NoLocal EXCEPT !.temp = temperature]]
         /\ CJump("monitor", IF temperature # NoTemp /\ temperature > OverheatAbove
                             THEN "mon_check" ELSE "mon_sleep")
    /\ UNCHANGED <<baseVars, fusVars, lblVars, ctx_state, alert_sent>>

\* _check_cpu_temperature, line 46: time.sleep(10)
mon_sleep ==
    /\ ctx_pc["monitor"] = "mon_sleep"
    /\ CJump("monitor", "mon_read")
    /\ UNCHANGED <<baseVars, fusVars, lblVars, ctx_state, ctx_local, alert_sent>>

\* _check_cpu_temperature, lines 42-44: unless the state is an OverheatState,
\* a new one is requested
mon_check ==
    /\ ctx_pc["monitor"] = "mon_check"
    /\ IF ctx_state # "OverheatState"
       THEN ctx_call("monitor", "OverheatState")
       ELSE /\ CJump("monitor", "mon_sleep")
            /\ UNCHANGED ctx_local
    /\ UNCHANGED <<baseVars, fusVars, lblVars, ctx_state, alert_sent>>

----------------------------------------------------------------------------
\* Specifications

\* The state after AssistiveDevice.__init__ (main.py 56-84, state_manager.py 28-38)
InitCommon ==
    /\ current_state = BOOTING
    /\ previous_state = NoState
    /\ transition_history = << >>
    /\ lock = NoThread
    /\ entry_callbacks = {BOOTING, RUNNING, THROTTLING, ERROR}
    /\ callback_runs = [exit |-> 0, entry |-> 0]
    /\ now = 0
    /\ stop_event = FALSE
    /\ current_temp = 0
    /\ frame = [t \in Threads |-> NoFrame]
    /\ observed = [t \in Threads |-> NoObservation]
    /\ io_controller = NoController
    /\ io_commands = << >>
    /\ fan_speed = 0 - 1
    /\ InitNavigation
    /\ InitTracking
    /\ InitTof
    /\ InitFusion
    /\ InitLabel
    /\ InitContext

\* The orchestrator: main.py's three threads
Init ==
    /\ InitCommon
    /\ exit_callbacks = {}
    /\ pc = [t \in Threads |-> IF t = "main" THEN "m_start" ELSE "off"]

\* The StateManager alone, with exit callbacks registered or not, used by
\* arbitrary callers
InitSM ==
    /\ InitCommon
    /\ exit_callbacks \in {{}, SystemState}
    /\ pc = [t \in Threads |-> IF t \in Clients THEN "c_idle" ELSE "off"]

\* The thermal supervisor beside one arbitrary caller
InitThermal ==
    /\ InitCommon
    /\ exit_callbacks = {}
    /\ pc = [t \in Threads |->
               CASE t = "thermal" -> "th_import"
                 [] t = "client1" -> "c_idle"
                 [] OTHER -> "off"]

TransitionTo ==
    \E t \in Threads :
        \/ tt_acquire(t)
        \/ tt_check(t)
        \/ tt_exit(t)
        \/ tt_swap(t)
        \/ tt_append(t)
        \/ tt_entry(t)
        \/ tt_return(t)

MainThread ==
    \/ m_start \/ m_init \/ m_spawn \/ m_loop \/ m_check \/ m_wd_sleep
    \/ m_reinit \/ m_signal \/ m_stop \/ m_join_inference \/ m_join_thermal

PerceptionThread == pl_loop \/ pl_getstate \/ pl_frame \/ pl_navigate \/ pl_speak

ThermalThread ==
    \/ th_import \/ th_loop \/ th_read \/ th_getstate \/ th_decide
    \/ th_sleep \/ th_except

ClientThread ==
    \E t \in Clients :
        \/ c_transition_to(t)
        \/ c_get_state(t)
        \/ c_get_state_info(t)
        \/ c_read(t)

Next == TransitionTo \/ MainThread \/ PerceptionThread \/ ThermalThread

NextSM == TransitionTo \/ ClientThread

NextThermal == TransitionTo \/ ThermalThread \/ ClientThread

Spec == Init /\ [][Next]_vars

SpecSM == InitSM /\ [][NextSM]_vars

SpecThermal == InitThermal /\ [][NextThermal]_vars

\* No thread of the orchestrator is running
InitIdle ==
    /\ InitCommon
    /\ exit_callbacks = {}
    /\ pc = [t \in Threads |-> "off"]

\* analyze_detections called on every batch
NextAnalyze == \E batch \in Batches : nav_analyze(batch)

SpecAnalyze == InitIdle /\ [][NextAnalyze]_vars

\* The alert engine over time, fed with frames of at most one detection
NextNav ==
    \/ \E batch \in SmallBatches : process_frame_navigation(batch)
    \/ nav_tick

SpecNav == InitIdle /\ [][NextNav]_vars

TrackingThread ==
    tk_process \/ tk_stop \/ tk_clear \/ tk_sentinel \/ tk_join_audio \/ tk_join

InferenceThread == ri_loop \/ ri_frame \/ ri_block \/ ri_put \/ ri_update \/ ri_finish \/ ri_except

AudioThread == an_start \/ an_loop \/ an_get \/ an_check \/ an_speak

\* One tracking session
NextTracking == TrackingThread \/ InferenceThread \/ AudioThread

SpecTracking == InitIdle /\ [][NextTracking]_vars

\* The steps of stop() after its first one
StopSteps == tk_clear \/ tk_sentinel \/ tk_join_audio \/ tk_join

\* The same session with every thread scheduled again and again: a stop() that
\* has begun goes on, and so do the two daemon threads.  Whether stop() is ever
\* called is left open, and a blocking driver call is a step of its own
\* (ri_block), after which the inference thread has no step left
SpecTrackingFair ==
    /\ InitIdle
    /\ [][NextTracking]_vars
    /\ WF_vars(StopSteps)
    /\ WF_vars(InferenceThread)
    /\ WF_vars(AudioThread)

\* The threads of the orchestrator: run_forever's watchdog, inference_loop and
\* thermal_monitor_loop
Workers == {"main", "perception", "thermal"}

\* The steps of transition_to a thread takes while it holds the lock
HoldingSteps(t) ==
    tt_check(t) \/ tt_exit(t) \/ tt_swap(t) \/ tt_append(t) \/ tt_entry(t) \/ tt_return(t)

\* The orchestrator some time after start() has returned True: the two threads
\* are running, the thermal loop has throttled at 80.0 degrees and resumed at
\* 59.9, and it sleeps after that tick
InitStarted ==
    /\ current_state = RUNNING
    /\ previous_state = THROTTLING
    /\ transition_history = << [from |-> BOOTING, to |-> RUNNING,
                                reason |-> Reason("Init_Success", NoTemp),
                                timestamp |-> 0],
                               [from |-> RUNNING, to |-> THROTTLING,
                                reason |-> Reason("Overheat", 800),
                                timestamp |-> 1],
                               [from |-> THROTTLING, to |-> RUNNING,
                                reason |-> Reason("Cooled", 599),
                                timestamp |-> 2] >>
    /\ lock = NoThread
    /\ entry_callbacks = {BOOTING, RUNNING, THROTTLING, ERROR}
    /\ exit_callbacks = {}
    /\ callback_runs = [exit |-> 0, entry |-> 3]
    /\ now = 3
    /\ stop_event = FALSE
    /\ current_temp = 599
    /\ frame = [t \in Threads |-> NoFrame]
    /\ observed = [t \in Threads |-> NoObservation]
    /\ io_controller = "IOAudioController"
    /\ io_commands = <<"set_led_status:ok">>
    /\ fan_speed = 100
    /\ InitNavigation
    /\ InitTracking
    /\ InitTof
    /\ InitFusion
    /\ InitLabel
    /\ InitContext
    /\ pc = [t \in Threads |->
               CASE t = "main" -> "m_loop"
                 [] t = "perception" -> "pl_loop"
                 [] t = "thermal" -> "th_sleep"
                 [] OTHER -> "off"]

\* run_forever's loop while no stop is requested
Watchdog == m_loop \/ m_check \/ m_wd_sleep \/ m_reinit

\* thermal_monitor_loop once psutil has been imported
ThermalLoop == th_loop \/ th_read \/ th_getstate \/ th_decide \/ th_sleep \/ th_except

NextStarted == TransitionTo \/ Watchdog \/ PerceptionThread \/ ThermalLoop

\* The running orchestrator with its threads scheduled again and again.  A
\* thread that holds the lock goes on to release it.  A thread that waits for
\* the lock takes it if the lock is free again and again: each thread spends
\* the time between two calls outside the lock (a one second sleep in
\* run_forever, a five second sleep in the thermal loop, a camera capture in
\* the perception loop), so a waiter is not overtaken for ever.
SpecFair ==
    /\ InitStarted
    /\ [][NextStarted]_vars
    /\ \A t \in Workers : WF_vars(HoldingSteps(t)) /\ SF_vars(tt_acquire(t))
    /\ SF_vars(pl_getstate)
    /\ SF_vars(th_getstate)

\* The SensorFusion object under any sequence of its three methods, with the
\* clock advancing in between
NextFusion ==
    \/ \E ds \in VisualBatches, timestamp \in Stamps : update_visual_data(ds, timestamp)
    \/ \E distances \in TofBatches, timestamp \in Stamps : update_tof_data(distances, timestamp)
    \/ get_fused_perception
    \/ nav_tick

SpecFusion == InitIdle /\ [][NextFusion]_vars

\* The label of every track of Tracks against every list of CleanDetections
NextLabel == \E track \in Tracks, dets \in CleanDetections : resolve_label(track, dets)

SpecLabel == InitIdle /\ [][NextLabel]_vars

\* The Context with the thread that runs its states and its temperature monitor
NextContext ==
    \/ ctx_run \/ in_process \/ rt_process \/ oh_process
    \/ mon_read \/ mon_check \/ mon_sleep
    \/ \E t \in CtxThreads : ct_begin(t) \/ ct_assign(t)

SpecContext == InitIdle /\ [][NextContext]_vars

\* detect_hole on every frame of HoleFrames
NextHole == TofInit \/ \E matrix \in HoleFrames : tof_detect_hole(matrix)

SpecHole == InitIdle /\ [][NextHole]_vars

\* detect_air_obstacle on every frame of AirFrames
NextAir == TofInit \/ \E matrix \in AirFrames : tof_detect_air_obstacle(matrix)

SpecAir == InitIdle /\ [][NextAir]_vars

\* Both detectors called in any order on one driver
NextTof ==
    \/ TofInit
    \/ \E matrix \in SomeFrames : tof_detect_hole(matrix)
    \/ \E matrix \in SomeFrames : tof_detect_air_obstacle(matrix)

SpecTof == InitIdle /\ [][NextTof]_vars

----------------------------------------------------------------------------
\* Properties of the StateManager (checked under SpecSM)

\* The allowed-transition table as the specification lists it
EightPairs ==
    {<<"Booting", "Running">>, <<"Booting", "Error">>,
     <<"Running", "Throttling">>, <<"Running", "Error">>, <<"Running", "Shutdown">>,
     <<"Throttling", "Running">>, <<"Throttling", "Error">>,
     <<"Error", "Booting">>}

\* The positions of transition_to at which the caller holds the lock
InTransition ==
    {"tt_check", "tt_exit", "tt_swap", "tt_append", "tt_entry", "tt_return"}

\* Thread t takes a step of its own
Steps(t) == pc'[t] # pc[t]

\* Thread t is about to return from an accepted transition
Accepted(t) == pc[t] = "tt_return" /\ frame[t].old_state # NoState

\* The log's last entry is the one thread t's accepted transition appends
LoggedLast(t) ==
    /\ Len(transition_history) > 0
    /\ LET e == transition_history[Len(transition_history)]
       IN  /\ e.from = frame[t].old_state
           /\ e.to = frame[t].target
           /\ e.reason = frame[t].reason

\* C1: a transition_to(to) called while the current state is from, with from # to
\* and (from, to) not in the table, returns False; from the moment it holds the
\* lock until it returns, no step changes current_state, previous_state or the
\* log, and no exit or entry callback runs.
C1_InvalidRejected ==
    [][\A t \in Threads :
         ( /\ lock = t
           /\ pc[t] \in {"tt_check", "tt_return"}
           /\ frame[t].old_state = NoState
           /\ frame[t].target # current_state
           /\ <<current_state, frame[t].target>> \notin EightPairs )
         => /\ UNCHANGED <<current_state, previous_state, transition_history,
                           callback_runs>>
            /\ (pc[t] = "tt_check" /\ Steps(t)
                  => pc'[t] = "tt_return" /\ frame'[t].ret = "False")
            /\ (pc[t] = "tt_return" => ReturnValue(t) = "False")]_vars

\* C1 witness: a request to leave Shutdown has been rejected
C1_Witness ==
    \E t \in Threads :
        /\ pc[t] = "tt_return"
        /\ frame[t].ret = "False"
        /\ current_state = "Shutdown"
        /\ frame[t].target = "Booting"

\* Every logged (from, to) is one of the eight pairs
C2_LoggedPairs ==
    \A i \in 1..Len(transition_history) :
        <<transition_history[i].from, transition_history[i].to>> \in EightPairs

\* C2: every change of current_state and every logged (from, to) is one of the
\* eight pairs, and a request for one of the eight made in its source state is
\* accepted: it is not rejected, and it returns True with the state changed.
C2_ExactlyEight ==
    /\ []C2_LoggedPairs
    /\ [][current_state' # current_state
            => <<current_state, current_state'>> \in EightPairs]_vars
    /\ [][\A t \in Threads :
            ( /\ pc[t] = "tt_check" /\ Steps(t)
              /\ <<current_state, frame[t].target>> \in EightPairs )
            => /\ frame'[t].ret = "None"
               /\ frame'[t].old_state = current_state
               /\ pc'[t] # "tt_return"]_vars
    /\ [](\A t \in Threads :
            Accepted(t) => /\ ReturnValue(t) = "True"
                           /\ current_state = frame[t].target
                           /\ <<frame[t].old_state, frame[t].target>> \in EightPairs)

\* C2 witness: a log holding four different pairs, Running->Shutdown among them
C2_Witness ==
    /\ \E i \in 1..Len(transition_history) :
         /\ transition_history[i].from = "Running"
         /\ transition_history[i].to = "Shutdown"
    /\ \E i \in 1..Len(transition_history) :
         /\ transition_history[i].from = "Error"
         /\ transition_history[i].to = "Booting"

\* C3: Shutdown is terminal: no step of any thread leaves it.
C3_ShutdownTerminal ==
    [][current_state = "Shutdown" => current_state' = "Shutdown"]_vars

\* C3 witness: in Shutdown, a caller asks for Error and is about to be refused
C3_Witness ==
    \E t \in Threads :
        /\ current_state = "Shutdown"
        /\ pc[t] = "tt_return"
        /\ frame[t].target = "Error"
        /\ ReturnValue(t) = "False"

\* C4: transition_to(s) called while the current state is s returns True; from
\* the moment it holds the lock until it returns, no step changes the log,
\* previous_state or current_state, and no callback runs.
C4_SelfTransition ==
    [][\A t \in Threads :
         ( /\ lock = t
           /\ pc[t] \in {"tt_check", "tt_return"}
           /\ frame[t].old_state = NoState
           /\ frame[t].target = current_state )
         => /\ UNCHANGED <<current_state, previous_state, transition_history,
                           callback_runs>>
            /\ (pc[t] = "tt_check" /\ Steps(t)
                  => pc'[t] = "tt_return" /\ frame'[t].ret = "True")
            /\ (pc[t] = "tt_return" => ReturnValue(t) = "True")]_vars

\* C4 witness: transition_to(Shutdown) in Shutdown is about to return True
C4_Witness ==
    \E t \in Threads :
        /\ pc[t] = "tt_return"
        /\ frame[t].old_state = NoState
        /\ frame[t].target = "Shutdown"
        /\ current_state = "Shutdown"
        /\ frame[t].ret = "True"

\* C5: an accepted transition runs, in this order: the exit callback of the old
\* state, while current_state is still the old state and nothing is logged; the
\* change of previous_state and current_state; the append of {from, to, reason,
\* timestamp}; the entry callback of the new state, with current_state the new
\* state and the entry already the log's last.
C5_Order ==
    [][\A t \in Threads :
         /\ ( pc[t] = "tt_check" /\ Steps(t) /\ pc'[t] # "tt_return" )
            => pc'[t] = "tt_exit"
         /\ ( pc[t] = "tt_exit" /\ Steps(t) )
            => /\ current_state = frame[t].old_state
               /\ UNCHANGED <<current_state, previous_state, transition_history>>
               /\ callback_runs'["exit"] = callback_runs["exit"]
                      + (IF frame[t].old_state \in exit_callbacks THEN 1 ELSE 0)
               /\ callback_runs'["entry"] = callback_runs["entry"]
               /\ pc'[t] = "tt_swap"
         /\ ( pc[t] = "tt_swap" /\ Steps(t) )
            => /\ current_state = frame[t].old_state
               /\ current_state' = frame[t].target
               /\ previous_state' = frame[t].old_state
               /\ UNCHANGED <<transition_history, callback_runs>>
               /\ pc'[t] = "tt_append"
         /\ ( pc[t] = "tt_append" /\ Steps(t) )
            => /\ current_state = frame[t].target
               /\ previous_state = frame[t].old_state
               /\ Len(transition_history') = Len(transition_history) + 1
               /\ SubSeq(transition_history', 1, Len(transition_history))
                      = transition_history
               /\ LoggedLast(t)'
               /\ UNCHANGED <<current_state, previous_state, callback_runs>>
               /\ pc'[t] = "tt_entry"
         /\ ( pc[t] = "tt_entry" /\ Steps(t) )
            => /\ current_state = frame[t].target
               /\ previous_state = frame[t].old_state
               /\ LoggedLast(t)
               /\ UNCHANGED <<current_state, previous_state, transition_history>>
               /\ callback_runs'["entry"] = callback_runs["entry"]
                      + (IF frame[t].target \in entry_callbacks THEN 1 ELSE 0)
               /\ callback_runs'["exit"] = callback_runs["exit"]
               /\ pc'[t] = "tt_return"]_vars

\* C5 witness: an accepted transition that ran both its exit and entry callback
C5_Witness ==
    \E t \in Threads :
        /\ Accepted(t)
        /\ frame[t].called = {"exit", "entry"}
        /\ LoggedLast(t)

\* C6: when the exit or the entry callback raised during an accepted
\* transition, the call still returns True with current_state the target,
\* previous_state the old state and the entry logged; and an exit callback that
\* raised did not keep a registered entry callback of the new state from running.
C6_CallbackFailure ==
    \A t \in Threads :
        ( pc[t] = "tt_return" /\ frame[t].raised # {} )
        => /\ ReturnValue(t) = "True"
           /\ current_state = frame[t].target
           /\ previous_state = frame[t].old_state
           /\ frame[t].old_state # frame[t].target
           /\ LoggedLast(t)
           /\ ( "exit" \in frame[t].raised /\ frame[t].target \in entry_callbacks
                  => "entry" \in frame[t].called )

\* C6 witness: a transition is about to return after both callbacks raised
C6_Witness ==
    \E t \in Threads :
        /\ pc[t] = "tt_return"
        /\ frame[t].raised = {"exit", "entry"}

\* Mutual exclusion of transitions, and reads taken between transitions
C7_OneAtATime ==
    Cardinality({t \in Threads : pc[t] \in InTransition}) <= 1

C7_ReadsWhole ==
    \A t \in Threads :
        ( observed'[t] # observed[t] /\ observed'[t] # NoObservation )
        => /\ \A u \in Threads : pc[u] \notin InTransition
           /\ observed'[t].current = current_state
           /\ observed'[t].count \in {-1, Len(transition_history)}
           /\ observed'[t].count # -1 => observed'[t].previous = previous_state
           /\ ( Len(transition_history) > 0 =>
                  current_state = transition_history[Len(transition_history)].to )
           /\ UNCHANGED <<current_state, previous_state, transition_history>>

\* C7: at most one thread is inside a transition (validating, changing state,
\* logging or running callbacks) at a time, and get_state / get_state_info read
\* only while no transition is in progress, returning the values of that moment.
C7_Serialized ==
    /\ []C7_OneAtATime
    /\ [][C7_ReadsWhole]_vars

\* C7 witness: one caller is mid-transition (state changed, entry not yet
\* logged) while a second, asking for another state, waits for the lock
C7_Witness ==
    \E t, u \in Threads :
        /\ pc[t] = "tt_append"
        /\ pc[u] = "tt_acquire"
        /\ frame[u].target # current_state

----------------------------------------------------------------------------
\* Properties of the thermal supervisor

\* The log's last entry leads to Error and quotes the reading of this tick
CitesReading ==
    /\ Len(transition_history) > 0
    /\ LET e == transition_history[Len(transition_history)]
       IN  /\ e.to = "Error"
           /\ e.reason.temp = current_temp

\* C8 as stated: whatever the state, a tick that read 95 C or more ends with the
\* system in Error and a logged transition whose reason quotes the reading.
C8_CriticalAlwaysError ==
    ( pc["thermal"] = "tt_return" /\ current_temp >= 950 )
    => /\ current_state = "Error"
       /\ CitesReading

\* What a tick that read 95 C or more has done when its request returns
C8_CriticalOutcome ==
    ( pc["thermal"] = "tt_return" /\ current_temp >= 950 )
    => /\ frame["thermal"].target = "Error"
       /\ frame["thermal"].reason.temp = current_temp
       /\ \/ /\ frame["thermal"].old_state \in {"Booting", "Running", "Throttling"}
             /\ ReturnValue("thermal") = "True"
             /\ current_state = "Error"
             /\ previous_state = frame["thermal"].old_state
             /\ LoggedLast("thermal")
             /\ CitesReading
          \/ /\ frame["thermal"].old_state = NoState
             /\ ReturnValue("thermal") = "True"
             /\ current_state = "Error"
          \/ /\ frame["thermal"].old_state = NoState
             /\ ReturnValue("thermal") = "False"
             /\ current_state = "Shutdown"

\* C8 amended: a tick that read 95 C or more always requests Error with a reason
\* quoting the reading; processed in Booting, Running or Throttling the request
\* leaves the system in Error with that reason logged; processed in Error it
\* returns True and the system stays in Error; processed in Shutdown it is
\* refused and the system stays in Shutdown.
C8_CriticalForcesError ==
    /\ []C8_CriticalOutcome
    /\ [][( pc["thermal"] = "th_decide" /\ Steps("thermal") /\ current_temp >= 950 )
            => /\ pc'["thermal"] = "tt_acquire"
               /\ frame'["thermal"].target = "Error"
               /\ frame'["thermal"].reason.temp = current_temp]_vars
    /\ [][( pc["thermal"] = "tt_check" /\ Steps("thermal") /\ current_temp >= 950
            /\ current_state \in {"Booting", "Running", "Throttling"} )
            => frame'["thermal"].old_state = current_state]_vars

\* C8 witness: a critical reading taken while Booting has put the system in Error
C8_Witness ==
    /\ pc["thermal"] = "tt_return"
    /\ current_temp >= 950
    /\ frame["thermal"].old_state = "Booting"
    /\ current_state = "Error"
    /\ CitesReading

\* C9: below 95 C a thermal tick changes the state in exactly two cases, 80 C or
\* more while Running (to Throttling) and less than 60 C while Throttling (to
\* Running); for every other reading and state it requests no transition.
C9_TwoCases ==
    /\ [][( pc["thermal"] = "tt_swap" /\ Steps("thermal") /\ current_temp < 950 )
            => \/ /\ current_temp >= 800
                  /\ current_state = "Running"
                  /\ current_state' = "Throttling"
               \/ /\ current_temp < 600
                  /\ current_state = "Throttling"
                  /\ current_state' = "Running"]_vars
    /\ [][( pc["thermal"] = "th_decide" /\ Steps("thermal") /\ current_temp < 950
            /\ ~ (current_temp >= 800 /\ observed["thermal"].current = "Running")
            /\ ~ (current_temp < 600 /\ observed["thermal"].current = "Throttling") )
            => pc'["thermal"] = "th_sleep" /\ UNCHANGED frame]_vars

\* C10: a temperature read that raises causes no transition and does not end
\* the loop: the thread waits an interval, returns to the loop's head and,
\* unless the stop flag is set, reads again; the loop ends only with the flag set.
C10_ReadFailureRetried ==
    /\ [](pc["thermal"] = "th_done" => stop_event)
    /\ [][( pc["thermal"] = "th_read" /\ pc'["thermal"] = "th_except" )
            => UNCHANGED <<smVars, lock, current_temp, frame>>]_vars
    /\ [][( pc["thermal"] = "th_except" /\ Steps("thermal") )
            => /\ pc'["thermal"] = "th_loop"
               /\ UNCHANGED <<smVars, lock, current_temp, frame>>]_vars
    /\ [][( pc["thermal"] = "th_loop" /\ Steps("thermal") )
            => pc'["thermal"] = IF stop_event THEN "th_done" ELSE "th_read"]_vars

\* C10 witness: a read has failed after an earlier tick throttled the system
C10_Witness ==
    /\ pc["thermal"] = "th_except"
    /\ ~stop_event
    /\ current_state = "Throttling"
    /\ current_temp >= 800

----------------------------------------------------------------------------
\* Properties of the watchdog, the failure paths and the Error entry action

\* C11: in Error the watchdog waits the recovery delay, moves Error to Booting
\* and re-runs the hardware initialization; when it succeeds the state becomes
\* Running, and when it fails the state is Error again, so that the watchdog
\* tries again after the same delay until an attempt succeeds.
C11_WatchdogRetries ==
    /\ [][( pc["main"] = "m_wd_sleep" /\ pc'["main"] = "tt_acquire" )
            => /\ frame'["main"].target = "Booting"
               /\ frame'["main"].cont = "m_reinit"]_vars
    /\ [][( pc["main"] = "m_reinit" /\ Steps("main") )
            => \/ /\ pc'["main"] = "tt_acquire"
                  /\ frame'["main"].target = "Running"
               \/ current_state' = "Error"]_vars

\* C12: a failure of the perception loop halts that loop only; the audio loop
\* that consumes the announcements keeps running, so it has ended only if the
\* session was stopped.
C12_OnlyPerceptionHalts ==
    tpc["audio"] = "an_done" => tpc["tracking"] \notin {"tk_process", "tk_wait"}

\* C13: every accepted transition into Error (after a failed initialization,
\* a perception exception or a critical reading) runs the Error entry action,
\* and that action sends the IO controller the 'error' indicator command
\* followed by a buzzer pulse.
C13_ErrorEntryAction ==
    /\ [][\A t \in Threads :
            ( pc[t] = "tt_append" /\ Steps(t) /\ frame[t].target = "Error" )
            => pc'[t] = "tt_entry"]_vars
    /\ [][\A t \in Threads :
            ( pc[t] = "tt_entry" /\ Steps(t) /\ frame[t].target = "Error" )
            => /\ callback_runs'.entry = callback_runs.entry + 1
               /\ Len(io_commands') >= 2
               /\ io_commands'[1] = "set_led_status:error"
               /\ io_commands'[2] = "trigger_buzzer:500"]_vars

\* C13 witness: the Error entry action has run for a critical reading, after the
\* log already holds an entry into Error
C13_Witness ==
    /\ pc["thermal"] = "tt_return"
    /\ frame["thermal"].target = "Error"
    /\ frame["thermal"].old_state = "Running"
    /\ "entry" \in frame["thermal"].called
    /\ current_temp >= 950
    /\ Len(io_commands) >= 2
    /\ io_commands[1] = "set_led_status:error"
    /\ io_commands[2] = "trigger_buzzer:500"
    /\ \E i \in 1..(Len(transition_history) - 1) : transition_history[i].to = "Error"

----------------------------------------------------------------------------
\* Properties of the alert engine

\* C14: a trigger_alert call made less than the cooldown (2.0 s) after the last
\* call that produced a speech request produces none, whatever the class of the
\* new threat; a call made at least the cooldown after it (or the first call)
\* produces exactly one, timed at the call.  So any two speech requests are at
\* least the cooldown apart.
C14_GlobalCooldown ==
    /\ [](\A i, j \in 1..Len(voice_requests) :
            i < j => voice_requests[j].time - voice_requests[i].time >= 20)
    /\ [][( clock' = clock /\ threat_info'.count > 0 )
            => IF /\ voice_requests # << >>
                  /\ clock - voice_requests[Len(voice_requests)].time < 20
               THEN voice_requests' = voice_requests
               ELSE /\ Len(voice_requests') = Len(voice_requests) + 1
                    /\ SubSeq(voice_requests', 1, Len(voice_requests)) = voice_requests
                    /\ voice_requests'[Len(voice_requests')].time = clock]_vars

\* C14 witness: a car was reported 1.5 s after the request for a person and
\* produced no request of its own
C14_Witness ==
    /\ Len(voice_requests) = 1
    /\ voice_requests[1].message[2] = "persona"
    /\ clock - voice_requests[1].time = 15
    /\ threat_info.count > 0
    /\ threat_info.highest_priority.object = "car"

\* The detections of the batch that are in the priority table and whose box is
\* centred above the aerial zone's lower edge
C15_Passing ==
    {i \in 1..Len(detections) :
        /\ detections[i].class_name \in DOMAIN AERIAL_OBSTACLES
        /\ (detections[i].bbox[2] + detections[i].bbox[4]) \div 2 < 400}

\* Threat th describes detection d
C15_Describes(th, d) ==
    /\ th.object = d.class_name
    /\ th.confidence = d.confidence
    /\ th.priority = AERIAL_OBSTACLES[d.class_name]
    /\ th.center = <<(d.bbox[1] + d.bbox[3]) \div 2, (d.bbox[2] + d.bbox[4]) \div 2>>

\* C15: analyze_detections returns None exactly when no detection has both a
\* class of the priority table and a box centre with y < AERIAL_ZONE_Y_MAX;
\* otherwise all_threats holds exactly the detections that pass both tests, in
\* ascending priority number, count is their number and highest_priority has
\* the smallest priority number of the batch.
C15_AnalyzeDetections ==
    /\ (threat_info.count = 0) <=> (C15_Passing = {})
    /\ C15_Passing # {} =>
         LET all == threat_info.all_threats
         IN  /\ threat_info.count = Cardinality(C15_Passing)
             /\ Len(all) = Cardinality(C15_Passing)
             /\ \A k \in 1..Len(all) :
                  \E i \in C15_Passing : C15_Describes(all[k], detections[i])
             /\ \A i \in C15_Passing :
                  Cardinality({k \in 1..Len(all) : C15_Describes(all[k], detections[i])})
                    = Cardinality({j \in C15_Passing : detections[j] = detections[i]})
             /\ \A k, l \in 1..Len(all) : k < l => all[k].priority <= all[l].priority
             /\ threat_info.highest_priority \in {all[k] : k \in 1..Len(all)}
             /\ \A k \in 1..Len(all) :
                  threat_info.highest_priority.priority <= all[k].priority

\* C15 witness: a car and then a person, both in the zone: the person comes first
C15_Witness ==
    /\ Len(detections) = 2
    /\ detections[1].class_name = "car"
    /\ detections[2].class_name = "person"
    /\ C15_Passing = {1, 2}
    /\ threat_info.count = 2
    /\ threat_info.highest_priority.object = "person"

\* C16: retained threats with the same priority number are in descending order
\* of confidence, whatever the order in which the detections arrived.
C16_TiesByConfidence ==
    \A k, l \in 1..Len(threat_info.all_threats) :
        ( /\ k < l
          /\ threat_info.all_threats[k].priority = threat_info.all_threats[l].priority )
        => threat_info.all_threats[k].confidence >= threat_info.all_threats[l].confidence

----------------------------------------------------------------------------
\* Properties of the tracking session and its announcement queue

\* C17: in one session each track ID is enqueued for announcement exactly once,
\* in the first frame in which it is among the accepted tracks; an ID that
\* persists, or vanishes and comes back, is not enqueued again, a different ID
\* appearing later is; the logged-ID set only grows.
C17_AnnouncedOnce ==
    /\ [](\A i, j \in 1..Len(enqueued) : i # j => enqueued[i].uid # enqueued[j].uid)
    /\ [](\A uid \in seen_ids : \E i \in 1..Len(enqueued) : enqueued[i].uid = uid)
    /\ [][Len(enqueued') > Len(enqueued)
            => /\ enqueued'[Len(enqueued')].uid \in current_frame_ids
               /\ enqueued'[Len(enqueued')].uid \notin seen_ids]_vars
    /\ [][logged_ids \subseteq logged_ids']_vars

\* C17 witness: ID 1 was announced, vanished for a frame in which ID 2 was
\* announced, and is back in the frame that has just been processed
C17_Witness ==
    /\ tpc["inference"] = "ri_finish"
    /\ Len(enqueued) = 2
    /\ enqueued[1].uid = 1
    /\ enqueued[2].uid = 2
    /\ active_ids = {2}
    /\ current_frame_ids = {1}

\* C18: the labels reach the voice sink in the order in which the perception
\* worker enqueued them: of two spoken labels, the one enqueued first is spoken
\* first, however long the sink takes.
C18_FifoOrder ==
    /\ \A i, j \in 1..Len(spoken) : i < j => spoken[i].n < spoken[j].n
    /\ \A i \in 1..Len(spoken) :
         /\ spoken[i].n \in 1..Len(enqueued)
         /\ spoken[i].label = enqueued[spoken[i].n].label

\* C18 witness: two labels that waited in the queue together have both been spoken
C18_Witness ==
    /\ Len(spoken) = 2
    /\ spoken[1].n = 1
    /\ spoken[2].n = 2
    /\ spoken[1].label # spoken[2].label
    /\ current_frame_ids = {1, 2}
    /\ seen_ids = {}

\* C19: while the session has not been stopped no enqueued label is lost: each
\* is still in the queue, or with the consumer on its way to the sink, or has
\* been handed to the sink.
C19_NoLabelLost ==
    tpc["tracking"] \in {"tk_process", "tk_wait"}
    => \A k \in 1..Len(enqueued) :
         \/ \E i \in 1..Len(speak_labels_queue) : speak_labels_queue[i].n = k
         \/ \E i \in 1..Len(spoken) : spoken[i].n = k
         \/ speak_label.n = k /\ tpc["audio"] \in {"an_check", "an_speak"}

\* a capacity one below the number of identities a session of the model meets
C20_Capacity == MaxIds - 1

\* C20: the announcement queue is bounded: its length never exceeds a fixed
\* capacity, even when the consumer never dequeues.
C20_QueueBounded == Len(speak_labels_queue) <= C20_Capacity

----------------------------------------------------------------------------
\* Properties of the two stop paths

\* C21: once the running flag is down, whether stop() lowered it and put the
\* sentinel or the perception loop failed and put none, the voice consumer
\* that is inside its loop eventually leaves it: every wait on the queue times
\* out and the flag is read again.
C21_ConsumerExits ==
    (~running /\ tpc["audio"] \in {"an_loop", "an_get", "an_check", "an_speak"})
        ~> (tpc["audio"] = "an_done")

\* C21 witness: the consumer has left its loop although stop() was never
\* called and the queue never held a sentinel
C21_Witness ==
    /\ tpc["audio"] = "an_done"
    /\ tpc["tracking"] = "tk_wait"
    /\ tpc["inference"] = "ri_done"
    /\ ~running
    /\ stop_mark.spoken < 0
    /\ speak_labels_queue = << >>
    /\ Len(enqueued) > 0

\* C22: after stop() has lowered the flag the consumer hands the sink at most
\* one more label, and only the one it had dequeued and accepted before; the
\* labels stop() cleared and those enqueued afterwards are never spoken.
C22_NothingSpokenAfterStop ==
    stop_mark.spoken >= 0
    => /\ Len(spoken) <= stop_mark.spoken + 1
       /\ \A i \in 1..Len(spoken) :
            i > stop_mark.spoken => spoken[i].n = stop_mark.accepted

\* C22 witness: stop() has returned; one label was spoken after it began and
\* another one, enqueued as well, never reached the sink
C22_Witness ==
    /\ tpc["tracking"] = "tk_stopped"
    /\ tpc["audio"] = "an_done"
    /\ stop_mark.spoken = 0
    /\ Len(spoken) = 1
    /\ Len(enqueued) = 2

\* C23: stop() always returns, even when a worker thread is stuck in a blocking
\* driver call: every join in the stop path is bounded by a timeout.
C23_StopReturns == (tpc["tracking"] = "tk_clear") ~> (tpc["tracking"] = "tk_stopped")

\* C24: a join that times out during stop with the worker still alive is
\* always followed by a diagnostic naming that worker.
C24_TimeoutsReported == join_timeouts \subseteq diagnostics

----------------------------------------------------------------------------
\* Properties of the depth-sensor detectors

\* The frame and the verdict of the latest call
LastMatrix == tof_call.matrix

LastResult == tof_call.result

\* The cells of rows 0 and 1 whose reading is not zero
C25_Valid == {c \in (0..1) \X (0..7) : LastMatrix[c] # 0}

\* C25: on a frame with a valid reading in rows 0-1, detect_hole reports a hole
\* exactly when the mean of the valid readings of those rows exceeds the
\* baseline by more than 300 mm.
C25_HoleIffJump ==
    (tof_call.op = "detect_hole" /\ C25_Valid # {})
    => (LastResult[1]
        <=> SumCells(LastMatrix, C25_Valid)
              > (baseline_floor + 300) * Cardinality(C25_Valid))

\* C26: when every cell of rows 0-1 is invalid, detect_hole reports a hole
\* across the full width, whatever the baseline and rows 2-7 are.
C26_BlindIsHole ==
    (tof_call.op = "detect_hole" /\ \A c \in (0..1) \X (0..7) : LastMatrix[c] = 0)
    => LastResult = <<TRUE, "frente completo">>

\* C26 witness: rows 0-1 all zero over valid readings in the rows below, with
\* the farthest baseline
C26_Witness ==
    /\ tof_call.op = "detect_hole"
    /\ \A c \in (0..1) \X (0..7) : LastMatrix[c] = 0
    /\ LastMatrix[<<2, 0>>] = 1000
    /\ baseline_floor = 3800
    /\ LastResult[1]

\* The columns of a third
C27_Cols(z) ==
    CASE z = "izquierda" -> {0, 1, 2} [] z = "medio" -> {3, 4} [] z = "derecha" -> {5, 6, 7}

\* The sum of a third's readings of rows 0-1, a zero counting as 4000
C27_Sum(z) ==
    SumCells([c \in (0..7) \X (0..7) |-> IF LastMatrix[c] = 0 THEN 4000 ELSE LastMatrix[c]],
             (0..1) \X C27_Cols(z))

\* The third's average is above baseline + 300
C27_Exceeds(z) == C27_Sum(z) > (baseline_floor + 300) * 2 * Cardinality(C27_Cols(z))

\* The average of y is above the average of z
C27_Deeper(y, z) ==
    C27_Sum(y) * Cardinality(C27_Cols(z)) > C27_Sum(z) * Cardinality(C27_Cols(y))

\* No exceeding third is deeper than z
C27_Deepest(z) ==
    /\ C27_Exceeds(z)
    /\ \A y \in {"izquierda", "medio", "derecha"} : C27_Exceeds(y) => ~C27_Deeper(y, z)

\* The position the rule gives
C27_Position ==
    IF \A z \in {"izquierda", "medio", "derecha"} : C27_Exceeds(z)
    THEN "frente completo (caída total)"
    ELSE IF C27_Deepest("izquierda") THEN "izquierda"
    ELSE IF C27_Deepest("medio") THEN "medio"
    ELSE "derecha"

\* The mean of the valid readings of rows 0-1 is more than 300 above the baseline
C27_DropDetected ==
    /\ C25_Valid # {}
    /\ SumCells(LastMatrix, C25_Valid) > (baseline_floor + 300) * Cardinality(C25_Valid)

C28_UniformDrop ==
    /\ tof_call.op = "detect_hole"
    /\ baseline_floor = 1000
    /\ \A c \in (0..1) \X (0..7) : LastMatrix[c] = 1400

\* C28: with a baseline of 1000 and every reading of rows 0-1 at 1400,
\* detect_hole reports a hole, and it reports it as a drop across the full width.
C28_UniformDropIsTotal ==
    C28_UniformDrop => LastResult = <<TRUE, "frente completo (caída total)">>

\* C28 witness: such a frame has been judged
C28_Witness == C28_UniformDrop /\ LastResult[1]

\* C28 as stated: the zone reported for that frame is one of left, center and right
C28_UniformDropNamesAThird ==
    C28_UniformDrop
    => LastResult[1] /\ LastResult[2] \in {"izquierda", "medio", "derecha"}

\* Some cell of rows 0-2 in these columns reads strictly between 0 and 1500
C29_Flag(cols) ==
    \E r \in 0..2, c \in cols : 0 < LastMatrix[<<r, c>>] /\ LastMatrix[<<r, c>>] < 1500

\* The outcome of each combination of the three flags
C29_Outcome(l, c, r) ==
    CASE ~l /\ ~c /\ ~r -> <<FALSE, "">>
      [] l /\ c /\ r -> <<TRUE, "pared">>
      [] l /\ ~c /\ r -> <<TRUE, "ambos lados">>
      [] l /\ c /\ ~r -> <<TRUE, "frente e izquierda">>
      [] ~l /\ c /\ r -> <<TRUE, "frente y derecha">>
      [] ~l /\ c /\ ~r -> <<TRUE, "frente">>
      [] l /\ ~c /\ ~r -> <<TRUE, "izquierda">>
      [] ~l /\ ~c /\ r -> <<TRUE, "derecha">>

\* C29: detect_air_obstacle flags a zone exactly when a cell of rows 0-2 in the
\* zone's columns reads strictly between 0 and 1500, and gives each of the
\* eight combinations of flags an outcome of its own.
C29_AirObstacle ==
    /\ tof_call.op = "detect_air_obstacle"
       => LastResult = C29_Outcome(C29_Flag({0, 1, 2}), C29_Flag({3, 4}), C29_Flag({5, 6, 7}))
    /\ Cardinality({C29_Outcome(l, c, r) : l \in BOOLEAN, c \in BOOLEAN, r \in BOOLEAN}) = 8

\* C29 witness: 1000 mm in the left columns of row 2 only, the limit itself on
\* the right, a far reading above: the verdict is left alone
C29_Witness ==
    /\ tof_call.op = "detect_air_obstacle"
    /\ LastMatrix[<<2, 0>>] = 1000
    /\ LastMatrix[<<2, 3>>] = 0
    /\ LastMatrix[<<2, 5>>] = 1500
    /\ LastMatrix[<<0, 0>>] = 2000
    /\ LastResult = <<TRUE, "izquierda">>

\* C30: no call of detect_hole or detect_air_obstacle changes the baseline
\* computed at construction (mount height over the cosine of the mount angle),
\* and each verdict is the one a newly constructed driver gives on that frame.
C30_BaselineFixed ==
    /\ [](baseline_floor # NoBaseline
          => baseline_floor
               = tof_args.baseline_floor * (IF tof_args.angle_grad = 60 THEN 2 ELSE 1))
    /\ [][baseline_floor # NoBaseline => baseline_floor' = baseline_floor]_vars
    /\ [](tof_call.op = "detect_hole"
          => LastResult = detect_hole(LastMatrix, hip(tof_args)))
    /\ [](tof_call.op = "detect_air_obstacle"
          => LastResult = detect_air_obstacle(LastMatrix))

\* C30 witness: a drop reported by a detect_hole that followed a
\* detect_air_obstacle on the same driver
C30_Witness ==
    /\ tof_call.op = "detect_hole"
    /\ tof_call.prev = "detect_air_obstacle"
    /\ baseline_floor = 1000
    /\ LastResult = <<TRUE, "frente completo (caída total)">>

----------------------------------------------------------------------------
\* Further properties of the alert engine, the orchestrator and the sensor fusion

\* C32: a trigger_alert call suppressed by the cooldown changes nothing: it
\* leaves last_alert_time as it was, so the quiet period is always measured
\* from the last call that was not suppressed.
C32_SuppressedIsNoOp ==
    /\ [][(clock' = clock /\ threat_info'.count > 0 /\ clock - last_alert_time < 20)
            => (last_alert_time' = last_alert_time /\ voice_requests' = voice_requests)]_vars
    /\ [](voice_requests # << >>
          => last_alert_time = voice_requests[Len(voice_requests)].time)
    /\ [](voice_requests = << >> => last_alert_time = 0)

\* C32 witness: half a second after the request for a person a car was
\* reported and suppressed, and the quiet period still counts from the request
C32_Witness ==
    /\ Len(voice_requests) = 1
    /\ voice_requests[1].message[2] = "persona"
    /\ threat_info.count > 0
    /\ threat_info.highest_priority.object = "car"
    /\ clock - last_alert_time = 5
    /\ last_alert_time = voice_requests[1].time

C37_AppliedFromReadState ==
    \A i \in 1..Len(transition_history) :
        /\ transition_history[i].reason.text = "Overheat"
             => transition_history[i].from = "Running"
        /\ transition_history[i].reason.text = "Cooled"
             => transition_history[i].from = "Throttling"

\* C39: once the perception loop has halted on an exception and the watchdog's
\* re-initialization has brought the system back to Running, a perception
\* worker is running again: the perception thread has not ended.
C39_WorkerRunsAfterRecovery ==
    (/\ lock = "nobody"
     /\ current_state = "Running"
     /\ transition_history # << >>
     /\ transition_history[Len(transition_history)].reason.text = "Recovery Success"
     /\ \E i \in 1..Len(transition_history) :
            transition_history[i].reason.text = "Exception en inference")
    => pc["perception"] # "pl_done"

\* C34: when an accepted transition has run the entry action of its new state
\* with the IO controller present, the controller has received the state's
\* commands: Running 'ok' and fan 50, Throttling 'warn' and fan 100, Booting
\* 'warn', Error 'error'; the fan is left at 50 on entering Running.
C34_EntryCommandsIssued ==
    \A t \in {"main", "perception", "thermal"} :
        (/\ pc[t] = "tt_return"
         /\ "entry" \in frame[t].called
         /\ io_controller # "None")
        => /\ io_commands # << >>
           /\ io_commands[1] =
                 (CASE current_state = "Running" -> "set_led_status:ok"
                    [] current_state = "Error" -> "set_led_status:error"
                    [] OTHER -> "set_led_status:warn")
           /\ current_state = "Throttling" => fan_speed = 100
           /\ current_state = "Running" => fan_speed = 50

\* C35: the speech sink never receives a navigation alert while the system
\* state is Booting, Error or Shutdown.
C35_AlertsGated ==
    [][(pc["perception"] = "pl_speak" /\ pc'["perception"] = "pl_loop")
          => current_state \notin {"Booting", "Error", "Shutdown"}]_vars

\* C38: no thread of the orchestrator waits for the StateManager lock for ever:
\* a transition_to call of the watchdog, the perception loop or the thermal
\* loop returns to its caller (while the log has room for its entry), and each
\* get_state call of the two loops returns.
C38_CallsReturn ==
    /\ \A t \in {"main", "perception", "thermal"} :
          (pc[t] \in {"tt_acquire", "tt_check", "tt_exit", "tt_swap", "tt_append",
                      "tt_entry", "tt_return"})
          ~> (\/ pc[t] \notin {"tt_acquire", "tt_check", "tt_exit", "tt_swap",
                               "tt_append", "tt_entry", "tt_return"}
              \/ Len(transition_history) >= MaxLog)
    /\ (pc["perception"] = "pl_getstate") ~> (pc["perception"] = "pl_frame")
    /\ (pc["thermal"] = "th_getstate") ~> (pc["thermal"] = "th_decide")

\* C38 witness: the watchdog and the thermal loop wait for the lock while the
\* perception loop holds it inside transition_to
C38_Witness ==
    /\ lock = "perception"
    /\ pc["perception"] = "tt_entry"
    /\ pc["main"] = "tt_acquire"
    /\ pc["thermal"] = "tt_acquire"
    /\ Len(transition_history) < MaxLog

\* C31: a depth update overwrites the depth slot and its timestamp and nothing
\* else; a visual update overwrites the visual slot, its timestamp and the
\* confidence (the mean of the batch, 0 for an empty batch) and nothing else;
\* get_fused_perception returns each slot as last written, with its timestamp.
C31_SlotsIndependent ==
    /\ [][(fusion_call' # fusion_call /\ fusion_call'.op = "update_tof_data")
            => /\ fusion'.tof_distances = fusion_call'.data
               /\ fusion'.last_tof_timestamp =
                     (IF fusion_call'.timestamp = 0 - 1 THEN clock
                                                        ELSE fusion_call'.timestamp)
               /\ fusion'.visual_detections = fusion.visual_detections
               /\ fusion'.last_camera_timestamp = fusion.last_camera_timestamp
               /\ fusion'.confidence_score = fusion.confidence_score]_vars
    /\ [][(fusion_call' # fusion_call /\ fusion_call'.op = "update_visual_data")
            => /\ fusion'.visual_detections = fusion_call'.data
               /\ fusion'.last_camera_timestamp =
                     (IF fusion_call'.timestamp = 0 - 1 THEN clock
                                                        ELSE fusion_call'.timestamp)
               /\ fusion'.confidence_score * Len(fusion_call'.data)
                     = SumConfidence(fusion_call'.data)
               /\ fusion_call'.data = << >> => fusion'.confidence_score = 0
               /\ fusion'.tof_distances = fusion.tof_distances
               /\ fusion'.last_tof_timestamp = fusion.last_tof_timestamp]_vars
    /\ [][(fusion_call' # fusion_call /\ fusion_call'.op = "get_fused_perception")
            => /\ fusion' = fusion
               /\ fusion_call'.result.visual.detections = fusion.visual_detections
               /\ fusion_call'.result.visual.timestamp = fusion.last_camera_timestamp
               /\ fusion_call'.result.tof.distances = fusion.tof_distances
               /\ fusion_call'.result.tof.timestamp = fusion.last_tof_timestamp
               /\ fusion_call'.result.confidence = fusion.confidence_score]_vars

\* C31 witness: a snapshot read after a visual update of two detections (mean
\* 75) that was followed by a later depth update with a caller's timestamp
C31_Witness ==
    /\ fusion_call.op = "get_fused_perception"
    /\ Len(fusion_call.result.visual.detections) = 2
    /\ fusion_call.result.confidence = 75
    /\ fusion_call.result.visual.timestamp = 25
    /\ fusion_call.result.tof.distances = <<800, 1500>>
    /\ fusion_call.result.tof.timestamp = 7

\* The area of the part of detection i that lies inside the track
C33_Overlap(i) ==
    LET t == label_call.track
        b == label_call.detections[i].bbox
        right == IF t[1] + t[3] < b[3] THEN t[1] + t[3] ELSE b[3]
        left == IF t[1] > b[1] THEN t[1] ELSE b[1]
        bottom == IF t[2] + t[4] < b[4] THEN t[2] + t[4] ELSE b[4]
        top == IF t[2] > b[2] THEN t[2] ELSE b[2]
    IN  IF right > left /\ bottom > top THEN (right - left) * (bottom - top) ELSE 0

\* Detection i covers more than half of the track
C33_Matches(i) == 2 * C33_Overlap(i) > label_call.track[3] * label_call.track[4]

\* C33: the label of an accepted track is the label of a detection with the
\* highest overlap ratio among those strictly above one half, wherever it is
\* in the list, and 'Object' when no detection is above one half.
C33_BestOverlapLabel ==
    label_call.label # "None" =>
        LET n == Len(label_call.detections)
        IN  IF \E i \in 1..n : C33_Matches(i)
            THEN \E i \in 1..n :
                    /\ C33_Matches(i)
                    /\ \A j \in 1..n : C33_Overlap(j) <= C33_Overlap(i)
                    /\ label_call.label = label_call.detections[i].label
            ELSE label_call.label = "Object"

\* C33 witness: a detection covering exactly half, then one covering all of the
\* track, then one covering three quarters: the label is the second one's
C33_Witness ==
    /\ label_call.track = <<0, 0, 4, 4>>
    /\ Len(label_call.detections) = 3
    /\ label_call.detections[1] = [label |-> "person", bbox |-> <<0, 0, 4, 2>>]
    /\ label_call.detections[2] = [label |-> "car", bbox |-> <<0, 0, 6, 5>>]
    /\ label_call.detections[3] = [label |-> "person", bbox |-> <<1, 0, 4, 4>>]
    /\ label_call.label = "car"

\* C40: the context leaves OverheatState only by the transition to InitState
\* that OverheatState.process requests after a reading below 47, and the
\* monitor never installs an OverheatState over an OverheatState.
C40_OverheatHeld ==
    /\ [][(ctx_state = "OverheatState" /\ ctx_state' # "OverheatState")
            => /\ ctx_state' = "InitState"
               /\ ctx_pc["runner"] = "ct_assign"
               /\ ctx_pc'["runner"] # "ct_assign"
               /\ ctx_local["runner"].obj = "OverheatState"
               /\ ctx_local["runner"].temp >= 0
               /\ ctx_local["runner"].temp < 47]_vars
    /\ [][(ctx_pc["monitor"] = "ct_assign" /\ ctx_pc'["monitor"] # "ct_assign")
            => ctx_state # "OverheatState"]_vars

====
